---- MODULE Spec2Model ----
(***************************************************************************)
(* Model of the SAS7BDAT reader of kshedden/datareader (sas7bdat.go):      *)
(* the row iterator SAS7BDAT.Read / readline / readNextPage /              *)
(* processByteArrayWithData, the string pool and chunkToSeries.            *)
(*                                                                         *)
(* Conventions.  Go slices and byte offsets are 0-based; TLA+ sequences    *)
(* are 1-based, so buf[a:b] is Slice(buf, a, b) and column j of the Go     *)
(* code is column j+1 here.  A byte is a number in 0..255.  A Go string    *)
(* or []byte is a sequence of bytes.  A float64 is the sequence of its 8   *)
(* bytes, most significant first.  A Go error result is "nil", "EOF" or    *)
(* "error"; "panic" is a run-time panic (slice bounds, explicit panic).    *)
(* The file models 32-bit files (intLength 4).                             *)
(***************************************************************************)
EXTENDS Integers, Sequences, FiniteSets, TLC

\* ------------------------------------------------------------------ bounds
MaxPages      == 2   \* pages that follow the header in a file
MaxRows       == 3   \* rows declared by a file
MaxRowsOnPage == 2   \* rows held by one page
MaxCalls      == 3   \* Read calls issued on one reader

\* ------------------------------------------------------ program constants
page_bit_offset_x86          == 16
subheader_pointer_length_x86 == 12
page_type_offset             == 0
page_type_length             == 2
block_count_offset           == 2
block_count_length           == 2
subheader_count_offset       == 4
subheader_count_length       == 2
page_meta_type               == 0
page_data_type               == 256
page_amd_type                == 1024
subheader_pointers_offset    == 8
truncated_subheader_id       == 1
compressed_subheader_id      == 4
compressed_subheader_type    == 1
page_bit_offset_x64          == 32
subheader_pointer_length_x64 == 24
magic == <<0, 0, 0, 0, 0, 0, 0, 0, 0, 0, 0, 0, 194, 234, 129, 96,
           179, 20, 17, 207, 189, 146, 8, 0, 9, 199, 49, 140, 24, 31, 16, 17>>
align_1_checker_value        == 51
align_1_offset               == 32
align_1_length               == 1
u64_byte_checker_value       == 51
align_2_offset               == 35
align_2_length               == 1
align_2_value                == 4
endianness_offset            == 37
endianness_length            == 1
platform_offset              == 39
platform_length              == 1
header_size_offset           == 196
header_size_length           == 4
page_size_offset             == 200
page_size_length             == 4
page_count_offset            == 204
page_count_length            == 4
sas_release_offset           == 216
sas_release_length           == 8
sas_server_type_offset       == 224
sas_server_type_length       == 16
os_version_number_offset     == 240
os_version_number_length     == 16
os_maker_offset              == 256
os_maker_length              == 16
os_name_offset               == 272
os_name_length               == 16
column_data_offset_offset    == 8
column_data_length_offset    == 8
column_data_length_length    == 4
column_type_offset           == 14
column_type_length           == 1
rle_compression              == "SASYZCRL"
rdc_compression              == "SASYZCR2"

rowSizeIndex          == 0
columnSizeIndex       == 1
subheaderCountsIndex  == 2
columnTextIndex       == 3
columnNameIndex       == 4
columnAttributesIndex == 5
formatAndLabelIndex   == 6
columnListIndex       == 7
dataSubheaderIndex    == 8

SASNumericType == 0
SASStringType  == 1

LittleEndian == "LittleEndian"
BigEndian    == "BigEndian"

\* ----------------------------------------------------------- Go helpers
min(x, y) == IF x < y THEN x ELSE y

\* A local variable: F applied to the value x of an expression the code
\* evaluates once and uses several times.
With(x, F(_)) == F(x)

Slice(buf, a, b) == SubSeq(buf, a + 1, b)

Zeros(n) == [i \in 1..n |-> 0]

Fill(n, b) == [i \in 1..n |-> b]

Reverse(s) == [i \in 1..Len(s) |-> s[Len(s) + 1 - i]]

RECURSIVE Flatten(_)
Flatten(ss) == IF ss = <<>> THEN <<>> ELSE Head(ss) \o Flatten(Tail(ss))

\* copy(dst[a:b], src): overwrites dst[a .. a+min(b-a, len(src))).
CopyInto(dst, a, b, src) ==
    [i \in 1..Len(dst) |->
        IF i > a /\ i <= a + min(b - a, Len(src)) THEN src[i - a] ELSE dst[i]]

\* bytes.TrimRight(temp, "\u0000 ")
RECURSIVE TrimRight(_)
TrimRight(s) ==
    IF s # <<>> /\ s[Len(s)] \in {0, 32} THEN TrimRight(SubSeq(s, 1, Len(s) - 1)) ELSE s

\* Unsigned big-endian value of a byte sequence (at most 31 significant bits).
RECURSIVE UBig(_)
UBig(s) == IF s = <<>> THEN 0 ELSE UBig(SubSeq(s, 1, Len(s) - 1)) * 256 + s[Len(s)]

\* binary.Read of a signed integer of Len(buf) bytes in the given byte order
\* (two's complement, computed on the complemented bytes when negative).
readIntFromBuffer(buf, ByteOrder) ==
    LET be == IF ByteOrder = LittleEndian THEN Reverse(buf) ELSE buf
    IN  IF be[1] >= 128
        THEN 0 - UBig([i \in 1..Len(be) |-> 255 - be[i]]) - 1
        ELSE UBig(be)

\* The bytes of the integer x (0 <= x < 2^15) in w bytes: what a writer of
\* the file stores and readIntFromBuffer reads back.
RECURSIVE BigBytes(_, _)
BigBytes(x, w) == IF w = 0 THEN <<>> ELSE BigBytes(x \div 256, w - 1) \o <<x % 256>>

IntBytes(x, w, ByteOrder) ==
    IF ByteOrder = LittleEndian THEN Reverse(BigBytes(x, w)) ELSE BigBytes(x, w)

\* math.IsNaN on the 8 bytes of a float64, most significant first.
IsNaN(f) ==
    /\ f[1] % 128 = 127
    /\ f[2] >= 240
    /\ (f[2] % 16 # 0 \/ \E i \in 3..8 : f[i] # 0)

\* --------------------------------------------------------- decompressors
Panic(v) == [out |-> v, err |-> "panic"]

\* rle_decompress: the loop over the commands of inbuff.
RECURSIVE rle_loop(_, _)
rle_loop(result, inbuff) ==
    IF Len(inbuff) = 0 THEN [out |-> result, err |-> "nil"]
    ELSE
    LET control_byte      == (inbuff[1] \div 16) * 16
        end_of_first_byte == inbuff[1] % 16
        in1               == Tail(inbuff)
        Literal(nbytes, src) ==
            IF Len(src) < nbytes THEN Panic(result)
            ELSE rle_loop(result \o SubSeq(src, 1, nbytes),
                          SubSeq(src, nbytes + 1, Len(src)))
    IN  CASE control_byte = 0 ->
               IF in1 = <<>> THEN Panic(result)
               ELSE Literal(in1[1] + 64, Tail(in1))
          [] control_byte = 64 ->
               IF in1 = <<>> THEN Panic(result)
               ELSE LET nbytes == end_of_first_byte * 16 + in1[1]
                        in2    == Tail(in1)
                    IN  IF in2 = <<>> THEN Panic(result)
                        ELSE rle_loop(result \o Fill(nbytes, in2[1]), Tail(in2))
          [] control_byte = 96 ->
               IF in1 = <<>> THEN Panic(result)
               ELSE rle_loop(result \o Fill(end_of_first_byte * 256 + in1[1] + 17, 32),
                             Tail(in1))
          [] control_byte = 112 ->
               IF in1 = <<>> THEN Panic(result)
               ELSE rle_loop(result \o Fill(end_of_first_byte * 256 + in1[1] + 17, 0),
                             Tail(in1))
          [] control_byte = 128 -> Literal(end_of_first_byte + 1, in1)
          [] control_byte = 144 -> Literal(end_of_first_byte + 17, in1)
          [] control_byte = 160 -> Literal(end_of_first_byte + 33, in1)
          [] control_byte = 176 -> Literal(end_of_first_byte + 49, in1)
          [] control_byte = 192 ->
               IF in1 = <<>> THEN Panic(result)
               ELSE rle_loop(result \o Fill(end_of_first_byte + 3, in1[1]), Tail(in1))
          [] control_byte = 208 -> rle_loop(result \o Fill(end_of_first_byte + 2, 64), in1)
          [] control_byte = 224 -> rle_loop(result \o Fill(end_of_first_byte + 2, 32), in1)
          [] control_byte = 240 -> rle_loop(result \o Fill(end_of_first_byte + 2, 0), in1)
          [] OTHER -> [out |-> <<>>, err |-> "error"]

\* A variant that returns a buffer of the declared length whatever the
\* commands produced.
rle_decompress_fitted(result_length, inbuff) ==
    With(rle_loop(<<>>, inbuff),
         LAMBDA r : [r EXCEPT !.out = SubSeq(@ \o Zeros(result_length), 1, result_length)])

\* A length other than result_length is only reported on stderr.
rle_decompress(result_length, inbuff) == rle_loop(<<>>, inbuff)

\* rdc_decompress: the loop over the tokens of inbuff.  The capacity of
\* outbuff is result_length until an append outgrows it (afterwards the
\* model takes the smallest capacity, len(outbuff)); the bytes between
\* len(outbuff) and the capacity are the zeros left by make.
RECURSIVE rdc_loop(_, _, _, _, _, _)
rdc_loop(result_length, inbuff, inbuff_pos, ctrl_bits, ctrl_mask0, outbuff) ==
    IF inbuff_pos >= Len(inbuff) THEN [out |-> outbuff, err |-> "nil"]
    ELSE
    LET shifted  == ctrl_mask0 \div 2
        reload   == shifted = 0
        short    == reload /\ inbuff_pos + 1 >= Len(inbuff)
        bits     == IF reload /\ ~short
                    THEN inbuff[inbuff_pos + 1] * 256 + inbuff[inbuff_pos + 2]
                    ELSE ctrl_bits
        mask     == IF reload THEN 32768 ELSE shifted
        pos      == IF reload THEN inbuff_pos + 2 ELSE inbuff_pos
        At(k)    == inbuff[k + 1]
        Has(k)   == k < Len(inbuff)
        capacity == IF Len(outbuff) > result_length THEN Len(outbuff) ELSE result_length
        padded   == outbuff \o Zeros(capacity - Len(outbuff))
        Pattern(ofs, cnt, next) ==
            LET a == Len(outbuff) - ofs
                b == a + cnt
            IN  IF a < 0 \/ b > capacity THEN Panic(outbuff)
                ELSE rdc_loop(result_length, inbuff, next, bits, mask,
                              outbuff \o Slice(padded, a, b))
    IN  IF short THEN Panic(outbuff)
        ELSE IF ~Has(pos) THEN Panic(outbuff)
        ELSE IF (bits \div mask) % 2 = 0
        THEN rdc_loop(result_length, inbuff, pos + 1, bits, mask, outbuff \o <<At(pos)>>)
        ELSE
        LET cmd == At(pos) \div 16
            cnt == At(pos) % 16
            p1  == pos + 1
        IN  CASE cmd = 0 ->
                   IF ~Has(p1) THEN Panic(outbuff)
                   ELSE rdc_loop(result_length, inbuff, p1 + 1, bits, mask,
                                 outbuff \o Fill(cnt + 3, At(p1)))
              [] cmd = 1 ->
                   IF ~Has(p1) THEN Panic(outbuff)
                   ELSE IF ~Has(p1 + 1) THEN Panic(outbuff)
                   ELSE rdc_loop(result_length, inbuff, p1 + 2, bits, mask,
                                 outbuff \o Fill(cnt + At(p1) * 16 + 19, At(p1 + 1)))
              [] cmd = 2 ->
                   IF ~Has(p1) \/ ~Has(p1 + 1) THEN Panic(outbuff)
                   ELSE Pattern(cnt + 3 + At(p1) * 16, At(p1 + 1) + 16, p1 + 2)
              [] OTHER ->
                   IF ~Has(p1) THEN Panic(outbuff)
                   ELSE Pattern(cnt + 3 + At(p1) * 16, cmd, p1 + 1)

rdc_decompress(result_length, inbuff) == rdc_loop(result_length, inbuff, 0, 0, 0, <<>>)

\* getDecompressor, applied: the decompressor selected by sas.Compression.
\* A nil decompressor (any other Compression value) panics when called.
getDecompressor(Compression, result_length, inbuff) ==
    CASE Compression = rle_compression -> rle_decompress(result_length, inbuff)
      [] Compression = rdc_compression -> rdc_decompress(result_length, inbuff)
      [] OTHER -> Panic(<<>>)

\* ------------------------------------------------------- the byte source
\* sas.file: the io.ReadSeeker positioned after the header.  pages are the
\* byte blocks that follow the header, pos the number of blocks consumed,
\* ops the number of Read/Seek calls made on the source.
\* file.Read(p) with len(p) = length: the next block, or (0, io.EOF).
fileRead(file, length) ==
    IF file.pos < Len(file.pages)
    THEN LET pg == file.pages[file.pos + 1]
             n  == IF Len(pg) < length THEN Len(pg) ELSE length
         IN  [n |-> n, data |-> SubSeq(pg, 1, n), err |-> "nil",
              file |-> [file EXCEPT !.pos = @ + 1, !.ops = @ + 1]]
    ELSE [n |-> 0, data |-> <<>>, err |-> "EOF", file |-> [file EXCEPT !.ops = @ + 1]]

\* readBytes with a cached page: the bytes [offset, offset+length) of it.
readBytes(sas, offset, length) ==
    IF offset + length > Len(sas.cachedPage) THEN [err |-> "error", buf |-> <<>>]
    ELSE IF offset < 0 \/ length < 0 THEN [err |-> "panic", buf |-> <<>>]
    ELSE [err |-> "nil", buf |-> Slice(sas.cachedPage, offset, offset + length)]

readInt(sas, offset, width) ==
    LET r == readBytes(sas, offset, width)
    IN  IF r.err # "nil" THEN [err |-> r.err, x |-> 0]
        ELSE [err |-> "nil", x |-> readIntFromBuffer(r.buf, sas.ByteOrder)]

\* readPageHeader: each field is assigned (0 on failure) before the error
\* of its read is looked at.
readPageHeader(sas) ==
    With(readInt(sas, page_type_offset + sas.properties.pageBitOffset, page_type_length),
         LAMBDA t :
    With(readInt(sas, block_count_offset + sas.properties.pageBitOffset, block_count_length),
         LAMBDA b :
    With(readInt(sas, subheader_count_offset + sas.properties.pageBitOffset,
                 subheader_count_length),
         LAMBDA c :
    LET s1 == [sas EXCEPT !.currentPageType = t.x]
        s2 == [s1 EXCEPT !.currentPageBlockCount = b.x]
        s3 == [s2 EXCEPT !.currentPageSubheadersCount = c.x]
    IN  IF t.err # "nil" THEN [sas |-> s1, err |-> IF t.err = "panic" THEN "panic" ELSE "error"]
        ELSE IF b.err # "nil" THEN [sas |-> s2, err |-> IF b.err = "panic" THEN "panic" ELSE "error"]
        ELSE IF c.err # "nil" THEN [sas |-> s3, err |-> IF c.err = "panic" THEN "panic" ELSE "error"]
        ELSE [sas |-> s3, err |-> "nil"])))

\* Subheader signatures, 32 and 64 bit, little and big endian.
subheader_signature_to_index ==
    << <<<<247,247,247,247>>, rowSizeIndex>>,
       <<<<0,0,0,0,247,247,247,247>>, rowSizeIndex>>,
       <<<<247,247,247,247,0,0,0,0>>, rowSizeIndex>>,
       <<<<247,247,247,247,255,255,251,254>>, rowSizeIndex>>,
       <<<<246,246,246,246>>, columnSizeIndex>>,
       <<<<0,0,0,0,246,246,246,246>>, columnSizeIndex>>,
       <<<<246,246,246,246,0,0,0,0>>, columnSizeIndex>>,
       <<<<246,246,246,246,255,255,251,254>>, columnSizeIndex>>,
       <<<<0,252,255,255>>, subheaderCountsIndex>>,
       <<<<255,255,252,0>>, subheaderCountsIndex>>,
       <<<<0,252,255,255,255,255,255,255>>, subheaderCountsIndex>>,
       <<<<255,255,255,255,255,255,252,0>>, subheaderCountsIndex>>,
       <<<<253,255,255,255>>, columnTextIndex>>,
       <<<<255,255,255,253>>, columnTextIndex>>,
       <<<<253,255,255,255,255,255,255,255>>, columnTextIndex>>,
       <<<<255,255,255,255,255,255,255,253>>, columnTextIndex>>,
       <<<<255,255,255,255>>, columnNameIndex>>,
       <<<<255,255,255,255,255,255,255,255>>, columnNameIndex>>,
       <<<<252,255,255,255>>, columnAttributesIndex>>,
       <<<<255,255,255,252>>, columnAttributesIndex>>,
       <<<<252,255,255,255,255,255,255,255>>, columnAttributesIndex>>,
       <<<<255,255,255,255,255,255,255,252>>, columnAttributesIndex>>,
       <<<<254,251,255,255>>, formatAndLabelIndex>>,
       <<<<255,255,251,254>>, formatAndLabelIndex>>,
       <<<<254,251,255,255,255,255,255,255>>, formatAndLabelIndex>>,
       <<<<255,255,255,255,255,255,251,254>>, formatAndLabelIndex>>,
       <<<<254,255,255,255>>, columnListIndex>>,
       <<<<255,255,255,254>>, columnListIndex>>,
       <<<<254,255,255,255,255,255,255,255>>, columnListIndex>>,
       <<<<255,255,255,255,255,255,255,254>>, columnListIndex>> >>

\* Variant of getSubheaderIndex that takes an unknown signature for a data
\* subheader whatever the type of its pointer.
getSubheaderIndex_anyType(sas, signature, compression, ptype) ==
    LET hits == {k \in 1..Len(subheader_signature_to_index) :
                    subheader_signature_to_index[k][1] = signature}
        f    == (compression = compressed_subheader_id) \/ (compression = 0)
    IN  IF hits # {}
        THEN [err |-> "nil", index |-> subheader_signature_to_index[CHOOSE k \in hits : TRUE][2]]
        ELSE IF sas.Compression # "" /\ f
        THEN [err |-> "nil", index |-> dataSubheaderIndex]
        ELSE [err |-> "error", index |-> 0]

getSubheaderIndex(sas, signature, compression, ptype) ==
    LET hits == {k \in 1..Len(subheader_signature_to_index) :
                    subheader_signature_to_index[k][1] = signature}
        f    == (compression = compressed_subheader_id) \/ (compression = 0)
    IN  IF hits # {}
        THEN [err |-> "nil", index |-> subheader_signature_to_index[CHOOSE k \in hits : TRUE][2]]
        ELSE IF sas.Compression # "" /\ f /\ ptype = compressed_subheader_type
        THEN [err |-> "nil", index |-> dataSubheaderIndex]
        ELSE [err |-> "error", index |-> 0]

readSubheaderSignature(sas, offset) ==
    readBytes(sas, offset, sas.properties.intLength)

processSubheaderPointers(sas, offset, subheaderPointerIndex) ==
    LET length      == sas.properties.intLength
        totalOffset == offset + sas.properties.subheaderPointerLength * subheaderPointerIndex
    IN  With(<<readInt(sas, totalOffset, length),
               readInt(sas, totalOffset + length, length),
               readInt(sas, totalOffset + 2 * length, 1),
               readInt(sas, totalOffset + 2 * length + 1, 1)>>,
             LAMBDA f :
        IF \A k \in 1..4 : f[k].err = "nil"
        THEN [err |-> "nil",
              pointer |-> [offset |-> f[1].x, length |-> f[2].x,
                           compression |-> f[3].x, ptype |-> f[4].x]]
        ELSE [err |-> IF \E k \in 1..4 : f[k].err = "panic" THEN "panic" ELSE "error",
              pointer |-> [offset |-> 0, length |-> 0, compression |-> 0, ptype |-> 0]])

\* processColumnAttributesSubheader: the loop over the attribute vectors,
\* from vector i.  Every vector read is appended to the column offsets,
\* lengths and types of the reader.
RECURSIVE columnAttributesFrom(_, _, _, _)
columnAttributesFrom(sas, offset, i, column_attributes_vectors_count) ==
    IF i >= column_attributes_vectors_count THEN [sas |-> sas, err |-> "nil"]
    ELSE
    LET intLen        == sas.properties.intLength
        colDataOffset == offset + intLen + column_data_offset_offset + i * (intLen + 8)
        colDataLen    == offset + 2 * intLen + column_data_length_offset + i * (intLen + 8)
        colTypes      == offset + 2 * intLen + column_type_offset + i * (intLen + 8)
    IN  With(<<readInt(sas, colDataOffset, intLen),
               readInt(sas, colDataLen, column_data_length_length),
               readInt(sas, colTypes, column_type_length)>>,
             LAMBDA x :
        IF x[1].err # "nil" THEN [sas |-> sas, err |-> x[1].err]
        ELSE IF x[2].err # "nil"
        THEN [sas |-> [sas EXCEPT !.columnDataOffsets = Append(@, x[1].x)], err |-> x[2].err]
        ELSE IF x[3].err # "nil"
        THEN [sas |-> [sas EXCEPT !.columnDataOffsets = Append(@, x[1].x),
                                  !.columnDataLengths = Append(@, x[2].x)],
              err |-> x[3].err]
        ELSE columnAttributesFrom(
                 [sas EXCEPT !.columnDataOffsets = Append(@, x[1].x),
                             !.columnDataLengths = Append(@, x[2].x),
                             !.columnTypes = Append(@, IF x[3].x = 1 THEN SASNumericType
                                                       ELSE SASStringType)],
                 offset, i + 1, column_attributes_vectors_count))

processColumnAttributesSubheader(sas, offset, length) ==
    columnAttributesFrom(sas, offset, 0,
        IF length - 2 * sas.properties.intLength - 12 < 0 THEN 0
        ELSE (length - 2 * sas.properties.intLength - 12) \div (sas.properties.intLength + 8))

\* processSubheader.  A data subheader is remembered for row decoding; the
\* processors of subheaderCounts and columnList do nothing.  The other
\* processors of the column metadata (rowSize, columnSize, columnText,
\* columnName, formatAndLabel) are outside this model: no page of the
\* modelled files carries such a subheader after the header, and reaching
\* one is reported as "unmodelled".
processSubheader(sas, subheader_index, pointer) ==
    CASE subheader_index = dataSubheaderIndex ->
           [sas |-> [sas EXCEPT !.currentPageDataSubheaderPointers = Append(@, pointer)],
            err |-> "nil"]
      [] subheader_index \in {subheaderCountsIndex, columnListIndex} ->
           [sas |-> sas, err |-> "nil"]
      [] subheader_index = columnAttributesIndex ->
           processColumnAttributesSubheader(sas, pointer.offset, pointer.length)
      [] subheader_index \in {rowSizeIndex, columnSizeIndex, columnTextIndex,
                              columnNameIndex, formatAndLabelIndex} ->
           [sas |-> sas, err |-> "unmodelled"]
      [] OTHER -> [sas |-> sas, err |-> "error"]

\* processPageMetadata: the loop over the subheader pointers, from pointer i.
RECURSIVE processPageMetadataFrom(_, _)
processPageMetadataFrom(sas, i) ==
    IF i >= sas.currentPageSubheadersCount THEN [sas |-> sas, err |-> "nil"]
    ELSE
    With(processSubheaderPointers(sas, subheader_pointers_offset + sas.properties.pageBitOffset, i),
         LAMBDA p :
        IF p.err # "nil" THEN [sas |-> sas, err |-> p.err]
        ELSE IF p.pointer.length = 0 \/ p.pointer.compression = truncated_subheader_id
        THEN processPageMetadataFrom(sas, i + 1)
        ELSE
        With(readSubheaderSignature(sas, p.pointer.offset), LAMBDA sig :
            IF sig.err # "nil" THEN [sas |-> sas, err |-> sig.err]
            ELSE
            With(getSubheaderIndex(sas, sig.buf, p.pointer.compression, p.pointer.ptype),
                 LAMBDA ix :
                IF ix.err # "nil" THEN [sas |-> sas, err |-> "error"]
                ELSE
                With(processSubheader(sas, ix.index, p.pointer), LAMBDA r :
                    IF r.err # "nil" THEN r
                    ELSE processPageMetadataFrom(r.sas, i + 1)))))

processPageMetadata(sas) == processPageMetadataFrom(sas, 0)

isPageMetaMixAmd(pagetype) == pagetype \in {page_meta_type, 512, 640, page_amd_type}

isPageMixType(val) == val \in {512, 640}

\* Variant of isPageMixDataType that knows data pages only.
isPageMixDataType_dataOnly(val) == val = 256

isPageMixDataType(val) == val \in {512, 640, 256}

\* Variant of checkPageType that also passes over data pages.
checkPageType_skipData(current_page) == current_page \notin {page_meta_type, 512, 640}

checkPageType_keepAmd(current_page) ==
    current_page \notin {page_meta_type, page_data_type, 512, 640, page_amd_type}

checkPageType(current_page) == current_page \notin {page_meta_type, page_data_type, 512, 640}

\* readNextPage: err and done as (error, bool).  make() replaces the cached
\* page, so its length is always pageLength, also after a short read.
RECURSIVE readNextPage(_)
readNextPage(sas) ==
    With(fileRead(sas.file, sas.properties.pageLength), LAMBDA rd :
    With([sas EXCEPT !.currentPageDataSubheaderPointers = <<>>,
                     !.cachedPage = rd.data \o Zeros(sas.properties.pageLength - rd.n),
                     !.file = rd.file],
         LAMBDA s1 :
        IF rd.n <= 0 THEN [sas |-> s1, err |-> "nil", done |-> TRUE]
        ELSE IF rd.err \notin {"nil", "EOF"} THEN [sas |-> s1, err |-> rd.err, done |-> FALSE]
        ELSE IF Len(s1.cachedPage) # sas.properties.pageLength
        THEN [sas |-> s1, err |-> "error", done |-> FALSE]
        ELSE
        With(readPageHeader(s1), LAMBDA h :
            IF h.err # "nil" THEN [sas |-> h.sas, err |-> h.err, done |-> FALSE]
            ELSE
            With(IF h.sas.currentPageType = page_meta_type
                 THEN processPageMetadata(h.sas)
                 ELSE [sas |-> h.sas, err |-> "nil"],
                 LAMBDA m :
                IF m.err # "nil" THEN [sas |-> m.sas, err |-> m.err, done |-> FALSE]
                ELSE IF checkPageType(m.sas.currentPageType) THEN readNextPage(m.sas)
                ELSE [sas |-> m.sas, err |-> "nil", done |-> FALSE]))))

\* ------------------------------------------------------------ row decoding
\* A Go map as a function; m[k] = v adds or replaces one entry.
MapPut(m, k, v) == [x \in (DOMAIN m) \cup {k} |-> IF x = k THEN v ELSE m[x]]

\* sas.TextDecoder, an *encoding.Decoder: "nil" is no decoder; "cp037" is
\* the IBM code page 037 character map (EBCDIC), which never fails; "utf8"
\* is a decoder over the UTF-8 validating transformer, which fails on the
\* first byte that is not valid UTF-8.  The tables cover the bytes of the
\* modelled cells: NUL, space, 'a', 'b' and EBCDIC space (0x40), 'a' (0x81),
\* 'b' (0x82).  The result of a character map is UTF-8 text.
DecodeByte(dec, b) ==
    IF dec = "cp037"
    THEN CASE b = 0   -> <<0>>
           [] b = 64  -> <<32>>
           [] b = 129 -> <<97>>
           [] b = 130 -> <<98>>
           [] b = 32  -> <<194, 128>>
           [] b = 97  -> <<47>>
           [] b = 98  -> <<195, 162>>
           [] OTHER   -> <<b>>
    ELSE <<b>>

\* TextDecoder.Bytes(temp): the decoded bytes.
DecoderBytes(dec, temp) == Flatten([i \in 1..Len(temp) |-> DecodeByte(dec, temp[i])])

\* TextDecoder.Bytes(temp) returns a non-nil error.
DecoderFails(dec, temp) == dec = "utf8" /\ \E i \in 1..Len(temp) : temp[i] >= 128

\* Variant of internString that never finds a string in the pool.
internString_noLookup(sas, t) ==
    LET k == Cardinality(DOMAIN sas.stringPool.m)
    IN  [sas |-> [sas EXCEPT !.stringPool.m = MapPut(@, k, t),
                             !.stringPoolR = MapPut(@, t, k)],
         k |-> k]

\* The string pool lookup of processByteArrayWithData: the id of the string
\* t, entered under the next free id when it is not in the pool yet.
internString(sas, t) ==
    IF t \in DOMAIN sas.stringPoolR
    THEN [sas |-> sas, k |-> sas.stringPoolR[t]]
    ELSE LET k == Cardinality(DOMAIN sas.stringPool.m)
         IN  [sas |-> [sas EXCEPT !.stringPool.m = MapPut(@, k, t),
                                  !.stringPoolR = MapPut(@, t, k)],
              k |-> k]

\* Variant of numericRange that places the bytes at the start of the value
\* in both byte orders.
numericRange_atStart(ByteOrder, s, length) == [a |-> s, b |-> s + length]

\* The range of a numeric column's buffer that receives the length stored
\* bytes of the row whose value starts at s.
numericRange(ByteOrder, s, length) ==
    IF ByteOrder = LittleEndian THEN [a |-> s + (8 - length), b |-> s + 8]
    ELSE [a |-> s, b |-> s + length]

\* The column loop of processByteArrayWithData, from column j (1-based).
\* source is the row slice, ext the bytes up to its capacity (a Go slice
\* expression may reach them).
RECURSIVE processColumns(_, _, _, _)
processColumns(sas, source, ext, j) ==
    IF j > sas.properties.columnCount THEN [sas |-> sas, err |-> "nil"]
    ELSE
    LET length == sas.columnDataLengths[j]
        start  == sas.columnDataOffsets[j]
        end    == start + length
        r      == sas.currentRowInChunkIndex
    IN  IF length = 0 THEN [sas |-> sas, err |-> "nil"]
        ELSE IF start < 0 \/ end < start \/ end > Len(ext) THEN [sas |-> sas, err |-> "panic"]
        ELSE
        LET temp == Slice(ext, start, end)
        IN  IF sas.columns[j].ctype = SASNumericType
            THEN LET s  == 8 * r
                     a  == numericRange(sas.ByteOrder, s, length).a
                     b  == numericRange(sas.ByteOrder, s, length).b
                     bc == sas.bytechunk[j]
                 IN  IF a < 0 \/ b < a \/ b > Len(bc) THEN [sas |-> sas, err |-> "panic"]
                     ELSE processColumns(
                            [sas EXCEPT !.bytechunk[j] = CopyInto(bc, a, b, temp)],
                            source, ext, j + 1)
            ELSE LET t1 == IF sas.TrimStrings THEN TrimRight(temp) ELSE temp
                     t2 == IF sas.TextDecoder # "nil" THEN DecoderBytes(sas.TextDecoder, t1) ELSE t1
                     in == internString(sas, t2)
                     k  == in.k
                     s1 == in.sas
                 IN  IF sas.TextDecoder # "nil" /\ DecoderFails(sas.TextDecoder, t1)
                     THEN [sas |-> sas, err |-> "panic"]
                     ELSE IF r >= Len(sas.stringchunk[j].a) THEN [sas |-> s1, err |-> "panic"]
                     ELSE processColumns(
                            [s1 EXCEPT !.stringchunk[j].a[r + 1] = k],
                            source, ext, j + 1)

processByteArrayWithData(sas, offset, length) ==
    LET rowLength == sas.properties.rowLength
        \* the column loop and the three index increments
        Finish(s, source, ext) ==
            With(processColumns(s, source, ext, 1), LAMBDA c :
                IF c.err # "nil" THEN c
                ELSE [sas |-> [c.sas EXCEPT !.currentRowOnPageIndex = @ + 1,
                                            !.currentRowInChunkIndex = @ + 1,
                                            !.currentRowInFileIndex = @ + 1],
                      err |-> "nil"])
        \* source = sas.cachedPage[offset : offset+length]
        Raw(s1) ==
            IF offset < 0 \/ length < 0 \/ offset + length > Len(s1.cachedPage)
            THEN [sas |-> s1, err |-> "panic"]
            ELSE Finish(s1, Slice(s1.cachedPage, offset, offset + length),
                        Slice(s1.cachedPage, offset, Len(s1.cachedPage)))
    IN  IF sas.Compression # "" /\ length < rowLength
        THEN IF offset < 0 \/ length < 0 \/ offset + length > Len(sas.cachedPage)
             THEN [sas |-> sas, err |-> "panic"]
             ELSE With(getDecompressor(sas.Compression, rowLength,
                                       Slice(sas.cachedPage, offset, offset + length)),
                       LAMBDA d :
                      IF d.err # "nil" THEN [sas |-> sas, err |-> d.err]
                      ELSE Finish(sas, d.out,
                                  IF Len(d.out) < rowLength
                                  THEN d.out \o Zeros(rowLength - Len(d.out)) ELSE d.out))
        ELSE IF offset + length > Len(sas.cachedPage)
        THEN With(readNextPage(sas), LAMBDA nx :
                 IF nx.err # "nil" \/ ~nx.done
                 THEN [sas |-> nx.sas, err |-> IF nx.err = "panic" THEN "panic" ELSE "error"]
                 ELSE Raw([nx.sas EXCEPT !.cachedPage = sas.cachedPage \o nx.sas.cachedPage]))
        ELSE Raw(sas)

\* Variant of alignCorrection that corrects whatever the option says.
alignCorrection_always(NoAlignCorrection, base) == base % 8

\* The alignment correction of the rows of a mix page whose subheader
\* pointers end at base.
alignCorrection(NoAlignCorrection, base) == IF NoAlignCorrection THEN 0 ELSE base % 8

\* readline: err and done as (error, bool).  After construction the cached
\* page is never nil, so the branch that seeks to the end of the header is
\* not taken.
RECURSIVE readline(_)
readline(sas) ==
    LET bit_offset == sas.properties.pageBitOffset
        subheaderPointerLength == sas.properties.subheaderPointerLength
        \* the page advance that follows the last row of a mix or data page
        Advance(s) ==
            With(readNextPage(s), LAMBDA nx :
                IF nx.err # "nil" THEN [sas |-> nx.sas, err |-> nx.err, done |-> FALSE]
                ELSE IF nx.done THEN [sas |-> nx.sas, err |-> "nil", done |-> TRUE]
                ELSE [sas |-> [nx.sas EXCEPT !.currentRowOnPageIndex = 0],
                      err |-> "nil", done |-> FALSE])
    IN  IF sas.currentPageType = page_meta_type
        THEN IF sas.currentRowOnPageIndex >= Len(sas.currentPageDataSubheaderPointers)
             THEN With(readNextPage(sas), LAMBDA nx :
                      IF nx.err # "nil" THEN [sas |-> nx.sas, err |-> nx.err, done |-> FALSE]
                      ELSE IF nx.done THEN [sas |-> nx.sas, err |-> "nil", done |-> TRUE]
                      ELSE readline([nx.sas EXCEPT !.currentRowOnPageIndex = 0]))
             ELSE LET current_subheader_pointer ==
                          sas.currentPageDataSubheaderPointers[sas.currentRowOnPageIndex + 1]
                  IN  With(processByteArrayWithData(sas, current_subheader_pointer.offset,
                                                    current_subheader_pointer.length),
                           LAMBDA p : [sas |-> p.sas, err |-> p.err, done |-> FALSE])
        ELSE IF isPageMixType(sas.currentPageType)
        THEN LET base == bit_offset + subheader_pointers_offset +
                         sas.currentPageSubheadersCount * subheaderPointerLength
                 offset == base + sas.currentRowOnPageIndex * sas.properties.rowLength +
                           alignCorrection(sas.NoAlignCorrection, base)
             IN  With(processByteArrayWithData(sas, offset, sas.properties.rowLength),
                      LAMBDA p :
                 IF p.err # "nil" THEN [sas |-> p.sas, err |-> p.err, done |-> FALSE]
                 ELSE IF p.sas.currentRowOnPageIndex =
                         min(p.sas.rowCount, p.sas.properties.mixPageRowCount)
                 THEN Advance(p.sas)
                 ELSE [sas |-> p.sas, err |-> "nil", done |-> FALSE])
        ELSE IF sas.currentPageType = page_data_type
        THEN With(processByteArrayWithData(sas,
                         bit_offset + subheader_pointers_offset +
                         sas.currentRowOnPageIndex * sas.properties.rowLength,
                         sas.properties.rowLength),
                  LAMBDA p :
                 IF p.err # "nil" THEN [sas |-> p.sas, err |-> p.err, done |-> FALSE]
                 ELSE IF p.sas.currentRowOnPageIndex = p.sas.currentPageBlockCount
                 THEN Advance(p.sas)
                 ELSE [sas |-> p.sas, err |-> "nil", done |-> FALSE])
        ELSE [sas |-> sas, err |-> "error", done |-> FALSE]

\* ------------------------------------------------------------------- Read
\* NewSeries: the length of a Series is the length of its data.  ref is the
\* allocation the data slice shares with the reader (0: a slice made by
\* chunkToSeries that the reader does not keep).
NewSeries(name, dtype, data, missing, ref) ==
    [Name |-> name, dtype |-> dtype, data |-> data, length |-> Len(data),
     missing |-> missing, ref |-> ref]

\* base.Add(time.Hour * time.Duration(24*v)), base = 1960-01-01 UTC
toDate(x) == [j \in 1..Len(x) |-> [base |-> 1960, unit |-> "hour", mult |-> 24, v |-> x[j]]]

\* base.Add(time.Duration(v) * time.Second)
toDateTime(x) == [j \in 1..Len(x) |-> [base |-> 1960, unit |-> "second", mult |-> 1, v |-> x[j]]]

chunkToSeries(sas) ==
    LET n == sas.currentRowInChunkIndex
        Col(j) ==
            LET name == sas.columnNames[j]
            IN  IF sas.columnTypes[j] = SASNumericType
                THEN LET raw  == sas.bytechunk[j]
                         vec  == [i \in 1..n |->
                                    LET b == SubSeq(raw, 8 * (i - 1) + 1, 8 * i)
                                    IN  IF sas.ByteOrder = LittleEndian THEN Reverse(b) ELSE b]
                         miss == [i \in 1..n |-> IsNaN(vec[i])]
                     IN  IF (sas.ConvertDates /\ sas.ColumnFormats[j] = "MMDDYY")
                            \/ sas.ColumnFormats[j] = "DATE"
                         THEN NewSeries(name, "time.Time", toDate(vec), miss, 0)
                         ELSE IF sas.ConvertDates /\ sas.ColumnFormats[j] = "DATETIME"
                         THEN NewSeries(name, "time.Time", toDateTime(vec), miss, 0)
                         ELSE NewSeries(name, "float64", vec, miss, 0)
                ELSE LET miss == [i \in 1..n |-> FALSE]
                     IN  IF sas.FactorizeStrings
                         THEN NewSeries(name, "uint64", sas.stringchunk[j].a, miss,
                                        sas.stringchunk[j].id)
                         ELSE NewSeries(name, "string",
                                        [i \in 1..n |->
                                            LET k == sas.stringchunk[j].a[i]
                                            IN  IF k \in DOMAIN sas.stringPool.m
                                                THEN sas.stringPool.m[k] ELSE <<>>],
                                        miss, 0)
        bad == \E j \in 1..sas.properties.columnCount :
                  \/ sas.columnTypes[j] \notin {SASNumericType, SASStringType}
                  \/ sas.columnTypes[j] = SASNumericType /\ 8 * n > Len(sas.bytechunk[j])
                  \/ sas.columnTypes[j] = SASStringType /\ ~sas.FactorizeStrings
                       /\ n > Len(sas.stringchunk[j].a)
    IN  IF bad THEN [rslt |-> <<>>, err |-> "panic"]
        ELSE [rslt |-> [j \in 1..sas.properties.columnCount |-> Col(j)], err |-> "nil"]

\* Variant of readRows whose loop runs one iteration too many.
RECURSIVE readRows_oneMore(_, _, _)
readRows_oneMore(sas, i, num_rows) ==
    IF i > num_rows THEN [sas |-> sas, err |-> "nil"]
    ELSE With(readline(sas), LAMBDA r :
             IF r.err # "nil" THEN [sas |-> r.sas, err |-> r.err]
             ELSE IF r.done THEN [sas |-> r.sas, err |-> "nil"]
             ELSE readRows_oneMore(r.sas, i + 1, num_rows))

\* The loop of Read over readline, from iteration i.
RECURSIVE readRows(_, _, _)
readRows(sas, i, num_rows) ==
    IF i >= num_rows THEN [sas |-> sas, err |-> "nil"]
    ELSE With(readline(sas), LAMBDA r :
             IF r.err # "nil" THEN [sas |-> r.sas, err |-> r.err]
             ELSE IF r.done THEN [sas |-> r.sas, err |-> "nil"]
             ELSE readRows(r.sas, i + 1, num_rows))

\* Variant of NewBuffers that clears the pool and the id buffers in place
\* instead of allocating new ones.
NewBuffers_inPlace(sas, num_rows) ==
    [sas EXCEPT
        !.stringPool  = [id |-> sas.stringPool.id, m |-> <<>>],
        !.stringPoolR = <<>>,
        !.bytechunk   = [j \in 1..sas.properties.columnCount |->
                            IF sas.columnTypes[j] = SASNumericType
                            THEN Zeros(8 * num_rows) ELSE <<>>],
        !.stringchunk = [j \in 1..sas.properties.columnCount |->
                            IF sas.columnTypes[j] = SASStringType
                            THEN [id |-> j, a |-> Zeros(num_rows)]
                            ELSE [id |-> 0, a |-> <<>>]]]

\* The buffers Read allocates: every make() yields a new object, numbered
\* by the allocation counter nalloc (the pool is nalloc+1, the id buffer of
\* column j is nalloc+1+j).
NewBuffers(sas, num_rows) ==
    [sas EXCEPT
        !.stringPool  = [id |-> sas.nalloc + 1, m |-> <<>>],
        !.stringPoolR = <<>>,
        !.bytechunk   = [j \in 1..sas.properties.columnCount |->
                            IF sas.columnTypes[j] = SASNumericType
                            THEN Zeros(8 * num_rows) ELSE <<>>],
        !.stringchunk = [j \in 1..sas.properties.columnCount |->
                            IF sas.columnTypes[j] = SASStringType
                            THEN [id |-> sas.nalloc + 1 + j, a |-> Zeros(num_rows)]
                            ELSE [id |-> 0, a |-> <<>>]],
        !.nalloc      = sas.nalloc + 1 + sas.properties.columnCount]

\* Variant of rowsAsked that sizes a negative request by the whole file.
rowsAsked_wholeFile(sas, num_rows) ==
    IF num_rows < 0 THEN sas.rowCount ELSE num_rows

\* The number of rows Read(num_rows) asks for: the remainder of the file
\* when num_rows is negative.
rowsAsked(sas, num_rows) ==
    IF num_rows < 0 THEN sas.rowCount - sas.currentRowInFileIndex ELSE num_rows

\* Variant of noRowsRemain with a strict comparison.
noRowsRemain_strict(sas) == sas.currentRowInFileIndex > sas.rowCount

\* The end-of-file test of Read.
noRowsRemain(sas) == sas.currentRowInFileIndex >= sas.rowCount

\* Variant of startChunk that keeps the chunk index of the previous call.
startChunk_keepIndex(sas) == sas

\* sas.currentRowInChunkIndex = 0 before the loop of Read.
startChunk(sas) == [sas EXCEPT !.currentRowInChunkIndex = 0]

\* Read(num_rows): the reader afterwards and the returned ([]*Series, error);
\* nil is TRUE for a nil batch.
Read(sas, num_rows0) ==
    LET num_rows == rowsAsked(sas, num_rows0)
    IN  IF noRowsRemain(sas)
        THEN [sas |-> sas, nil |-> TRUE, rslt |-> <<>>, err |-> "EOF"]
        ELSE IF \E j \in 1..sas.properties.columnCount :
                   sas.columnTypes[j] \notin {SASNumericType, SASStringType}
        THEN [sas |-> NewBuffers(sas, num_rows), nil |-> TRUE, rslt |-> <<>>, err |-> "error"]
        ELSE
        With(readRows(startChunk(NewBuffers(sas, num_rows)), 0, num_rows), LAMBDA l :
            IF l.err # "nil" THEN [sas |-> l.sas, nil |-> TRUE, rslt |-> <<>>, err |-> l.err]
            ELSE With(chunkToSeries(l.sas), LAMBDA c :
                IF c.err # "nil"
                THEN [sas |-> l.sas, nil |-> TRUE, rslt |-> <<>>, err |-> c.err]
                ELSE [sas |-> l.sas, nil |-> FALSE, rslt |-> c.rslt, err |-> "nil"]))

\* StringFactorMap returns the pool map itself, not a copy.
StringFactorMap(sas) == sas.stringPool

RowCount(sas) == sas.rowCount

\* ------------------------------------------------------------ construction
\* processPageMeta.  The pointer list is nil until the first append of a
\* data subheader during construction, so "!= nil" is "not empty" here.
processPageMeta(sas) ==
    With(readPageHeader(sas), LAMBDA h :
        IF h.err # "nil" THEN [sas |-> h.sas, err |-> h.err, done |-> FALSE]
        ELSE
        With(IF isPageMetaMixAmd(h.sas.currentPageType)
             THEN processPageMetadata(h.sas)
             ELSE [sas |-> h.sas, err |-> "nil"],
             LAMBDA m :
            IF m.err # "nil" THEN [sas |-> m.sas, err |-> m.err, done |-> FALSE]
            ELSE [sas |-> m.sas, err |-> "nil",
                  done |-> isPageMixDataType(m.sas.currentPageType)
                           \/ m.sas.currentPageDataSubheaderPointers # <<>>]))

\* parseMetadata: file.Read fills the existing page buffer.
RECURSIVE parseMetadata(_)
parseMetadata(sas) ==
    With(fileRead(sas.file, Len(sas.cachedPage)), LAMBDA rd :
    With([sas EXCEPT !.file = rd.file,
                     !.cachedPage = rd.data \o SubSeq(@, rd.n + 1, Len(@))],
         LAMBDA s1 :
        IF rd.n <= 0 THEN [sas |-> s1, err |-> "nil"]
        ELSE IF rd.err # "nil" THEN [sas |-> s1, err |-> rd.err]
        ELSE IF rd.n # sas.properties.pageLength THEN [sas |-> s1, err |-> "error"]
        ELSE With(processPageMeta(s1), LAMBDA m :
                 IF m.err # "nil" THEN [sas |-> m.sas, err |-> m.err]
                 ELSE IF m.done THEN [sas |-> m.sas, err |-> "nil"]
                 ELSE parseMetadata(m.sas))))

\* getProperties over the bytes f.header that the source holds before its
\* first page.  The first 288 bytes are read from the file (readBytes with
\* no cached page) and become the cached page; a second file.Read fills
\* v, whose length is headerLength-288 whatever the number of bytes read.
\* The fields that are only copied out of the first 288 bytes (encoding,
\* name, file type, dates) cannot fail and are left out.  file.Read at the
\* end of the source returns io.EOF.
getProperties(f) ==
    LET h   == f.header
        bad == [err |-> "error", ByteOrder |-> LittleEndian, U64 |-> FALSE,
                Platform |-> "", headerLength |-> 0, pageLength |-> 0, pageCount |-> 0]
    IN  IF Len(h) = 0 THEN [bad EXCEPT !.err = "EOF"]
        ELSE IF Len(h) < 288 THEN bad
        ELSE
        LET page0  == SubSeq(h, 1, 288)
            U64    == page0[align_1_offset + 1] = u64_byte_checker_value
            align2 == IF U64 THEN align_2_value ELSE 0
            align1 == IF page0[align_2_offset + 1] = align_1_checker_value
                      THEN align_2_value ELSE 0
            total_align == align1 + align2
            order  == IF page0[endianness_offset + 1] = 1 THEN LittleEndian ELSE BigEndian
            plat   == CASE page0[platform_offset + 1] = 49 -> "unix"
                        [] page0[platform_offset + 1] = 50 -> "windows"
                        [] OTHER -> "unknown"
            s288   == [cachedPage |-> page0, ByteOrder |-> order]
        IN  IF SubSeq(page0, 1, Len(magic)) # magic THEN bad
            ELSE
            With(readInt(s288, header_size_offset + align1, header_size_length), LAMBDA hl :
            IF hl.err # "nil" THEN bad
            ELSE IF hl.x - 288 < 0 THEN [bad EXCEPT !.err = "panic"]
            ELSE IF Len(h) <= 288 THEN [bad EXCEPT !.err = "EOF"]
            ELSE
            LET got   == SubSeq(h, 289, min(Len(h), hl.x))
                v     == got \o Zeros(hl.x - 288 - Len(got))
                sfull == [cachedPage |-> page0 \o v, ByteOrder |-> order]
            IN  IF Len(sfull.cachedPage) # hl.x THEN bad
                ELSE
                With(<<readInt(sfull, page_size_offset + align1, page_size_length),
                       readInt(sfull, page_count_offset + align1, page_count_length),
                       readBytes(sfull, sas_release_offset + total_align, sas_release_length),
                       readBytes(sfull, sas_server_type_offset + total_align,
                                 sas_server_type_length),
                       readBytes(sfull, os_version_number_offset + total_align,
                                 os_version_number_length),
                       readBytes(sfull, os_name_offset + total_align, os_name_length)>>,
                     LAMBDA r :
                    IF \E k \in 1..6 : r[k].err # "nil" THEN bad
                    ELSE [err |-> "nil", ByteOrder |-> order, U64 |-> U64,
                          Platform |-> plat, headerLength |-> hl.x,
                          pageLength |-> r[1].x, pageCount |-> r[2].x]))

\* The reader NewSAS7BDATReader hands to parseMetadata for a file f, given
\* the result g of getProperties and the public option fields the caller
\* sets before reading.  The processors of the column subheaders are not
\* modelled: the column metadata they leave are the fields of f.meta.
newReader(f, g, opts) ==
              [ColumnFormats     |-> f.meta.ColumnFormats,
               TrimStrings       |-> opts.TrimStrings,
               ConvertDates      |-> opts.ConvertDates,
               FactorizeStrings  |-> opts.FactorizeStrings,
               NoAlignCorrection |-> opts.NoAlignCorrection,
               TextDecoder       |-> opts.TextDecoder,
               ByteOrder         |-> g.ByteOrder,
               U64               |-> g.U64,
               Platform          |-> g.Platform,
               Compression       |-> f.meta.Compression,
               rowCount          |-> f.meta.rowCount,
               columnTypes       |-> f.meta.columnTypes,
               columnNames       |-> f.meta.columnNames,
               file              |-> [pages |-> f.pages, pos |-> 0, ops |-> 0],
               cachedPage        |-> Zeros(g.pageLength),
               currentPageType   |-> 0,
               currentPageBlockCount      |-> 0,
               currentPageSubheadersCount |-> 0,
               currentRowInFileIndex      |-> 0,
               currentRowOnPageIndex      |-> 0,
               currentPageDataSubheaderPointers |-> <<>>,
               stringchunk       |-> <<>>,
               bytechunk         |-> <<>>,
               currentRowInChunkIndex |-> 0,
               columnDataOffsets |-> f.meta.columnDataOffsets,
               columnDataLengths |-> f.meta.columnDataLengths,
               columns           |-> [j \in 1..Len(f.meta.columnTypes) |->
                                        [colId  |-> j - 1,
                                         name   |-> f.meta.columnNames[j],
                                         format |-> f.meta.ColumnFormats[j],
                                         ctype  |-> f.meta.columnTypes[j],
                                         length |-> f.meta.columnDataLengths[j]]],
               properties        |-> [intLength              |-> IF g.U64 THEN 8 ELSE 4,
                                      pageBitOffset          |->
                                          IF g.U64 THEN page_bit_offset_x64
                                          ELSE page_bit_offset_x86,
                                      subheaderPointerLength |->
                                          IF g.U64 THEN subheader_pointer_length_x64
                                          ELSE subheader_pointer_length_x86,
                                      headerLength           |-> g.headerLength,
                                      pageLength             |-> g.pageLength,
                                      pageCount              |-> g.pageCount,
                                      rowLength              |-> f.meta.rowLength,
                                      mixPageRowCount        |-> f.meta.mixPageRowCount,
                                      columnCount            |-> Len(f.meta.columnTypes)],
               stringPool        |-> [id |-> 0, m |-> <<>>],
               stringPoolR       |-> <<>>,
               nalloc            |-> 0]

\* The nil *SAS7BDAT.
NilReader == [nil |-> TRUE]

\* NewSAS7BDATReader: (nil, err) when getProperties or parseMetadata fails.
NewSAS7BDATReader(f, opts) ==
    With(getProperties(f), LAMBDA g :
        IF g.err # "nil" THEN [sas |-> NilReader, err |-> g.err]
        ELSE With(parseMetadata(newReader(f, g, opts)), LAMBDA m :
                 IF m.err # "nil" THEN [sas |-> NilReader, err |-> m.err]
                 ELSE [sas |-> m.sas, err |-> "nil"]))

\* ------------------------------------------------------------- input files
\* The files the model reads: three columns (a numeric column stored in 3
\* bytes and two strings of width 2), rows taken from RowVals, laid out on
\* meta pages (one data subheader per row, RLE-compressed when shorter),
\* one mix page, data pages and amd pages.
ColTypes   == <<SASNumericType, SASStringType, SASStringType>>
ColOffsets == <<0, 3, 5>>
ColLengths == <<3, 2, 2>>
ColNames   == <<"x", "s", "t">>
RowLength  == ColOffsets[3] + ColLengths[3]

\* 1: 4.0 / "a " / "b "   2: NaN / "b " / "b\0"   3: 0 / "  " / "  "
\* and two rows of an EBCDIC file: 4: 4.0 / "a " / "b "   5: 4.0 / "a\0" / "b "
RowVals == << <<64, 16, 0, 97, 32, 98, 32>>,
              <<127, 248, 127, 98, 32, 98, 0>>,
              <<0, 0, 0, 32, 32, 32, 32>>,
              <<64, 16, 0, 129, 64, 130, 64>>,
              <<64, 16, 0, 129, 0, 130, 64>> >>

\* A row as a data subheader holds it: RLE commands F1 (3 zeros) and E2
\* (4 spaces) for row 3, the raw bytes when compression does not shorten it.
Stored(row) == IF row = RowVals[3] THEN <<241, 226>> ELSE row

PageLength == 24 + 12 * MaxRowsOnPage + 4 + RowLength * MaxRowsOnPage + 4

Pad(bytes) == bytes \o Fill(PageLength - Len(bytes), 238)

PageHeader(ptype, blocks, subs, order) ==
    Zeros(page_bit_offset_x86) \o IntBytes(ptype, 2, order) \o IntBytes(blocks, 2, order)
        \o IntBytes(subs, 2, order) \o <<0, 0>>

PointerBytes(offset, length, compression, ptype, order) ==
    IntBytes(offset, 4, order) \o IntBytes(length, 4, order) \o <<compression, ptype, 0, 0>>

DataPage(rows, order) ==
    Pad(PageHeader(page_data_type, Len(rows), 0, order) \o Flatten(rows))

\* A mix page with one subheader (a subheaderCounts subheader in the last
\* 4 bytes of the page), the alignment gap and the rows.
MixPage(rows, order) ==
    LET base == 24 + 12
        body == PageHeader(512, 1 + Len(rows), 1, order)
                  \o PointerBytes(PageLength - 4, 4, 0, 0, order)
                  \o Fill(base % 8, 238) \o Flatten(rows)
        sig  == IF order = LittleEndian THEN <<0, 252, 255, 255>> ELSE <<255, 255, 252, 0>>
    IN  body \o Fill(PageLength - 4 - Len(body), 238) \o sig

RECURSIVE SumLen(_)
SumLen(ss) == IF ss = <<>> THEN 0 ELSE Len(Head(ss)) + SumLen(Tail(ss))

MetaPage(rows, order) ==
    LET k  == Len(rows)
        st == [i \in 1..k |-> Stored(rows[i])]
        at(i) == 24 + 12 * k + SumLen(SubSeq(st, 1, i - 1))
        ptr(i) == PointerBytes(at(i), Len(st[i]),
                               IF Len(st[i]) < RowLength THEN compressed_subheader_id ELSE 0,
                               compressed_subheader_type, order)
    IN  Pad(PageHeader(page_meta_type, k, k, order)
              \o Flatten([i \in 1..k |-> ptr(i)]) \o Flatten(st))

AmdPage(order) == Pad(PageHeader(page_amd_type, 0, 0, order))

\* An amd page that carries one data subheader per row, as a meta page does.
AmdRowsPage(rows, order) ==
    CopyInto(MetaPage(rows, order), page_bit_offset_x86 + page_type_offset,
             page_bit_offset_x86 + page_type_offset + page_type_length,
             IntBytes(page_amd_type, 2, order))

\* A page of a type the row iterator has no branch for, without rows.
OtherPage(ptype, order) == Pad(PageHeader(ptype, 0, 0, order))

\* The page types of the kinds of such pages: amd, the two types known
\* from other readers (16384, -28672) and a type no reader knows.
OtherKinds == {"amd", "metc", "comp", "unk"}

KindType(kind) ==
    CASE kind = "amd" -> page_amd_type
      [] kind = "metc" -> 16384
      [] kind = "comp" -> 0 - 28672
      [] OTHER -> 7

\* A meta page without rows that carries one column attributes subheader
\* with one vector (offset 7, length 2, a string column).
AttrPage(order) ==
    Pad(PageHeader(page_meta_type, 0, 1, order)
          \o PointerBytes(24 + 12, 32, 0, 0, order)
          \o (IF order = LittleEndian THEN <<252, 255, 255, 255>> ELSE <<255, 255, 255, 252>>)
          \o Zeros(8) \o IntBytes(RowLength, 4, order) \o IntBytes(2, 4, order)
          \o <<0, 0, 2>> \o Zeros(9))

\* The offset of the first row of a mix page with c subheader pointers.
MixStart(c) == (24 + 12 * c) + ((24 + 12 * c) % 8)

\* The numbers of subheader pointers with which the last of n rows of a
\* mix page starts on the page and ends beyond it.
CrossCounts(n) ==
    {c \in 1..(PageLength \div 12) :
        /\ 24 + 12 * c <= PageLength
        /\ MixStart(c) + (n - 1) * RowLength < PageLength
        /\ MixStart(c) + n * RowLength > PageLength}

\* A mix page whose last row crosses the end of the page: c pointers of
\* length 0, the alignment gap, and the rows as far as the page holds them.
CrossPage(rows, order) ==
    LET c == CHOOSE c \in CrossCounts(Len(rows)) : TRUE
    IN  SubSeq(PageHeader(512, c + Len(rows), c, order)
                 \o Flatten([i \in 1..c |-> PointerBytes(0, 0, 0, 0, order)])
                 \o Fill((24 + 12 * c) % 8, 238) \o Flatten(rows),
               1, PageLength)

PageSpecs ==
    [kind : {"meta"}, n : 0..MaxRowsOnPage] \cup [kind : {"mix", "data"}, n : 1..MaxRowsOnPage]
        \cup [kind : {"amd"}, n : {0}]

RECURSIVE RowsBefore(_, _)
RowsBefore(layout, p) == IF p <= 1 THEN 0 ELSE layout[p - 1].n + RowsBefore(layout, p - 1)

TotalRows(layout) == RowsBefore(layout, Len(layout) + 1)

\* The order in which a file holds its pages: meta pages, then the mix
\* page, then data pages (amd pages anywhere).
PageRank(kind) == CASE kind = "meta" -> 0 [] kind = "mix" -> 1 [] OTHER -> 2

\* Valid layouts: the rows of the pages add up to the declared row count;
\* at most one mix page (it holds mixPageRowCount rows); pages in file
\* order; every page with rows is full except the last one; at most one
\* page without rows.
Layouts ==
    {l \in UNION {[1..k -> PageSpecs] : k \in 1..MaxPages} :
        /\ TotalRows(l) \in 1..MaxRows
        /\ Cardinality({p \in 1..Len(l) : l[p].kind = "mix"}) <= 1
        /\ Cardinality({p \in 1..Len(l) : l[p].n = 0}) <= 1
        /\ \A p, q \in 1..Len(l) :
              p < q /\ l[p].kind # "amd" /\ l[q].kind # "amd"
                  => PageRank(l[p].kind) <= PageRank(l[q].kind)
        /\ \A p, q \in 1..Len(l) :
              p < q /\ l[p].n > 0 /\ l[q].n > 0 => l[p].n = MaxRowsOnPage}

\* Row r of the file is RowVals[content[r]] (cyclically).
Contents == {<<1, 2, 3>>, <<2, 3, 1, 1>>}

\* The length the modelled headers declare (longer than the 296 bytes that
\* getProperties looks at).
HeaderLength == 304

\* The header of a 32-bit file written on unix: the magic number, the
\* alignment probes (byte 35 is '3' when align1 is 4), the byte order and
\* the three sizes; the text fields are left empty.
HeaderBytes(order, align1, headerLength, pageLength, pageCount) ==
    LET Place(buf, at, bytes) == CopyInto(buf, at, at + Len(bytes), bytes)
        b0 == magic \o Zeros(headerLength - Len(magic))
        b1 == Place(b0, align_1_offset, <<34>>)
        b2 == Place(b1, align_2_offset, <<IF align1 = 0 THEN 50 ELSE align_1_checker_value>>)
        b3 == Place(b2, endianness_offset, <<IF order = LittleEndian THEN 1 ELSE 0>>)
        b4 == Place(b3, platform_offset, <<49>>)
        b5 == Place(b4, header_size_offset + align1, IntBytes(headerLength, 4, order))
        b6 == Place(b5, page_size_offset + align1, IntBytes(pageLength, 4, order))
    IN  Place(b6, page_count_offset + align1, IntBytes(pageCount, 4, order))

FileOf(layout, content, order, formats) ==
    LET rowsOf(p) == [i \in 1..layout[p].n |->
                        RowVals[content[((RowsBefore(layout, p) + i - 1) % Len(content)) + 1]]]
        page(p) == CASE layout[p].kind = "meta" -> MetaPage(rowsOf(p), order)
                     [] layout[p].kind = "mix"  -> MixPage(rowsOf(p), order)
                     [] layout[p].kind = "data" -> DataPage(rowsOf(p), order)
                     [] layout[p].kind = "amd"  -> AmdPage(order)
                     [] layout[p].kind = "amdrows" -> AmdRowsPage(rowsOf(p), order)
                     [] layout[p].kind = "attr" -> AttrPage(order)
                     [] layout[p].kind = "cross" -> CrossPage(rowsOf(p), order)
                     [] OTHER -> OtherPage(KindType(layout[p].kind), order)
        mix == {p \in 1..Len(layout) : layout[p].kind \in {"mix", "cross"}}
    IN  [header |-> HeaderBytes(order, 0, HeaderLength, PageLength, Len(layout)),
         pages |-> [p \in 1..Len(layout) |-> page(p)],
         meta  |-> [Compression       |-> IF \E p \in 1..Len(layout) :
                                               layout[p].kind \in {"meta", "amdrows"} /\ layout[p].n > 0
                                          THEN rle_compression ELSE "",
                    rowCount          |-> TotalRows(layout),
                    mixPageRowCount   |-> IF mix = {} THEN MaxRowsOnPage
                                          ELSE layout[CHOOSE p \in mix : TRUE].n,
                    rowLength         |-> RowLength,
                    columnTypes       |-> ColTypes,
                    columnNames       |-> ColNames,
                    columnDataOffsets |-> ColOffsets,
                    columnDataLengths |-> ColLengths,
                    ColumnFormats     |-> formats]]

\* The first size bytes of a file, for a size within its header: no page
\* and so no column metadata is left.
Truncated(f, size) ==
    [header |-> SubSeq(f.header, 1, size),
     pages  |-> <<>>,
     meta   |-> [Compression |-> "", rowCount |-> 0, mixPageRowCount |-> 0, rowLength |-> 0,
                 columnTypes |-> <<>>, columnNames |-> <<>>, columnDataOffsets |-> <<>>,
                 columnDataLengths |-> <<>>, ColumnFormats |-> <<>>]]

\* The number of bytes of a whole file.
FileSize(f) == Len(f.header) + SumLen(f.pages)

\* The rows of a file in file order, as RowVals indices (for the claims).
FileRows(layout, content) ==
    [r \in 1..TotalRows(layout) |-> RowVals[content[((r - 1) % Len(content)) + 1]]]

DefaultOpts == [TrimStrings |-> FALSE, ConvertDates |-> FALSE, FactorizeStrings |-> FALSE,
                NoAlignCorrection |-> FALSE, TextDecoder |-> "nil"]

\* ------------------------------------------------------------------ state
VARIABLES
    sas,     \* the reader (*SAS7BDAT)
    input,   \* the file and options the reader was made from
    ret,     \* what the last Read call was given and returned
    held,    \* the batches and pool maps the caller got from earlier Reads
    calls,   \* number of Read calls made
    stata,   \* the reader (*StataReader)
    csv,     \* the reader (*CSVReader)
    cmp      \* the operands and the result of AllClose or of a decompressor

vars == <<sas, input, ret, held, calls, stata, csv, cmp>>

\* The value of a variable that a specification does not use.
Unused == "unused"

NoRet == [n |-> 0, nil |-> TRUE, rslt |-> <<>>, err |-> "none", before |-> 0, ops |-> 0,
          page |-> 0, ptype |-> 0]

InitWith(layouts, contents, orders, formats, optss) ==
    \E l \in layouts, c \in contents, o \in orders, fm \in formats, op \in optss :
      \E r \in {NewSAS7BDATReader(FileOf(l, c, o, <<fm, "", "">>), op)} :
            /\ r.err = "nil"
            /\ sas = r.sas
            /\ input = [layout |-> l, content |-> c, opts |-> op,
                         whole |-> Read(r.sas, -1).rslt, open |-> r.err]
            /\ ret = NoRet
            /\ held = <<>>
            /\ calls = 0
            /\ stata = Unused /\ csv = Unused /\ cmp = Unused

Init ==
    InitWith(Layouts, Contents, {LittleEndian}, {"BEST"},
             {[DefaultOpts EXCEPT !.TrimStrings = t, !.FactorizeStrings = z] :
                 t \in BOOLEAN, z \in BOOLEAN})

\* The caller calls sas.Read(n) and keeps the batch and the map returned by
\* StringFactorMap() right after the call.  A panic ends the program.
DoRead(n) ==
    /\ calls < MaxCalls
    /\ input.open = "nil"
    /\ ret.err # "panic"
    /\ \E r \in {Read(sas, n)} :
        /\ calls' = calls + 1
        /\ sas' = r.sas
        /\ ret' = [n |-> n, nil |-> r.nil, rslt |-> r.rslt, err |-> r.err,
                   before |-> sas.currentRowInFileIndex,
                   ops |-> r.sas.file.ops - sas.file.ops,
                   page |-> sas.file.pos, ptype |-> sas.currentPageType]
        /\ held' = IF r.nil THEN held
                   ELSE Append(held, [n |-> n, rslt |-> r.rslt, pool |-> StringFactorMap(r.sas)])
        /\ UNCHANGED <<input, stata, csv, cmp>>

ReadSizes == {1, 2, MaxRows + 1}

ReadRest == DoRead(-1)

ReadZero == DoRead(0)

ReadSome == \E n \in ReadSizes : DoRead(n)

Next == ReadRest \/ ReadZero \/ ReadSome

Spec == Init /\ [][Next]_vars

\* A second specification: single-page files in both byte orders, the
\* numeric column under each format, ConvertDates on and off.
InitDates ==
    InitWith({l \in Layouts : Len(l) = 1}, {<<2, 3, 1, 1>>}, {LittleEndian, BigEndian},
             {"MMDDYY", "DATE", "DATETIME", "BEST"},
             {[DefaultOpts EXCEPT !.ConvertDates = c] : c \in BOOLEAN})

SpecDates == InitDates /\ [][Next]_vars

\* A third specification: files in EBCDIC and ASCII read through a text
\* decoder, with and without TrimStrings.
InitText ==
    InitWith({l \in Layouts : Len(l) = 1}, {<<4, 5, 1>>, <<1, 4, 5>>}, {LittleEndian},
             {"BEST"},
             {[DefaultOpts EXCEPT !.TrimStrings = t, !.TextDecoder = d] :
                 t \in BOOLEAN, d \in {"cp037", "utf8"}})

SpecText == InitText /\ [][Next]_vars

\* A fourth specification: the constructor over whole files and over files
\* cut within the header, in both byte orders and header alignments.
HeaderCuts == {0, 1, 287, 288, 289, HeaderLength - 1}

InitHeader ==
    \E l \in {l \in Layouts : Len(l) = 1}, o \in {LittleEndian, BigEndian},
       a \in {0, align_2_value} :
      \E whole \in {[FileOf(l, <<1, 2, 3>>, o, <<"BEST", "", "">>) EXCEPT
                        !.header = HeaderBytes(o, a, HeaderLength, PageLength, Len(l))]} :
        \E size \in HeaderCuts \cup {FileSize(whole)} :
          \E r \in {NewSAS7BDATReader(IF size < HeaderLength THEN Truncated(whole, size)
                                       ELSE whole, DefaultOpts)} :
            /\ sas = r.sas
            /\ input = [layout |-> l, content |-> <<1, 2, 3>>, opts |-> DefaultOpts,
                         whole |-> <<>>, open |-> r.err, size |-> size, align1 |-> a]
            /\ ret = NoRet
            /\ held = <<>>
            /\ calls = 0
            /\ stata = Unused /\ csv = Unused /\ cmp = Unused

SpecHeader == InitHeader /\ [][Next]_vars

\* A fifth specification: files of up to three pages with a page the row
\* iterator has no branch for, with a meta page that carries a column
\* attributes subheader, or with a mix page whose last row crosses the end
\* of the page.  short is the number of rows the header declares beyond
\* those the pages hold.
PageFiles ==
    LET D(n) == [kind |-> "data", n |-> n]
        Z(k) == [kind |-> k, n |-> 0]
        X(n) == [kind |-> "cross", n |-> n]
    IN  {[layout |-> <<D(n), Z(k), D(1)>>, short |-> 0] :
            n \in 1..(MaxRowsOnPage - 1), k \in OtherKinds \cup {"attr"}}
        \cup {[layout |-> <<Z(k), D(n)>>, short |-> 0] :
                n \in 1..MaxRowsOnPage, k \in OtherKinds \cup {"attr"}}
        \cup {[layout |-> <<Z(k)>>, short |-> 1] : k \in OtherKinds}
        \cup {[layout |-> <<X(n)>>, short |-> 0] :
                n \in {m \in 1..MaxRowsOnPage : CrossCounts(m) # {}}}
        \cup {[layout |-> <<X(n), D(1)>>, short |-> 0] :
                n \in {m \in 1..MaxRowsOnPage : CrossCounts(m) # {}}}

InitPages ==
    \E pf \in PageFiles, o \in {LittleEndian, BigEndian}, z \in BOOLEAN :
      \E op \in {[DefaultOpts EXCEPT !.FactorizeStrings = z]} :
        \E r \in {NewSAS7BDATReader(
                      [FileOf(pf.layout, <<1, 2, 3>>, o, <<"BEST", "", "">>) EXCEPT
                          !.meta.rowCount = @ + pf.short], op)} :
            /\ r.err = "nil"
            /\ sas = r.sas
            /\ input = [layout |-> pf.layout, content |-> <<1, 2, 3>>, opts |-> op,
                         whole |-> <<>>, open |-> r.err, short |-> pf.short]
            /\ ret = NoRet
            /\ held = <<>>
            /\ calls = 0
            /\ stata = Unused /\ csv = Unused /\ cmp = Unused

SpecPages == InitPages /\ [][Next]_vars

\* Files in both byte orders, read with and without the alignment
\* correction of mix pages.
\* A file whose mix pages hold their rows right after the subheader
\* pointers, without the alignment gap.
Unaligned(f, layout) ==
    [f EXCEPT !.pages = [p \in 1..Len(f.pages) |->
        IF layout[p].kind = "mix"
        THEN SubSeq(f.pages[p], 1, 36) \o SubSeq(f.pages[p], 36 + (36 % 8) + 1, PageLength - 4)
                \o Fill(36 % 8, 238) \o SubSeq(f.pages[p], PageLength - 3, PageLength)
        ELSE f.pages[p]]]

InitOrders ==
    \E l \in Layouts, o \in {LittleEndian, BigEndian}, c \in BOOLEAN :
      \E r \in {NewSAS7BDATReader(IF c THEN Unaligned(FileOf(l, <<1, 2, 3>>, o, <<"BEST", "", "">>), l)
                                   ELSE FileOf(l, <<1, 2, 3>>, o, <<"BEST", "", "">>),
                                   [DefaultOpts EXCEPT !.NoAlignCorrection = c])} :
            /\ r.err = "nil"
            /\ sas = r.sas
            /\ input = [layout |-> l, content |-> <<1, 2, 3>>,
                         opts |-> [DefaultOpts EXCEPT !.NoAlignCorrection = c],
                         whole |-> <<>>, open |-> r.err]
            /\ ret = NoRet /\ held = <<>> /\ calls = 0
            /\ stata = Unused /\ csv = Unused /\ cmp = Unused

SpecOrders == InitOrders /\ [][Next]_vars

\* Files that begin with a meta page of one subheader pointer, for the
\* classification of the pointer during construction.  The signature is
\* at SignatureAt; a pointer may also point behind the page.
SignatureAt == 40

PointerSpecs ==
    [offset : {SignatureAt, PageLength}, length : {0, 4}, compression : {0, 1, 2, 4},
     ptype : {0, 1, 2}]

Signatures == {<<0, 252, 255, 255>>, <<254, 255, 255, 255>>, <<64, 16, 0, 97>>}

PointerPage(ptr, sig, order) ==
    Pad(PageHeader(page_meta_type, 0, 1, order)
          \o PointerBytes(ptr.offset, ptr.length, ptr.compression, ptr.ptype, order)
          \o Fill(SignatureAt - 36, 238) \o sig)

PointerFile(ptr, sig, order, compression) ==
    With(FileOf(<<[kind |-> "data", n |-> 1]>>, <<1, 2, 3>>, order, <<"BEST", "", "">>),
         LAMBDA f : [f EXCEPT !.header = HeaderBytes(order, 0, HeaderLength, PageLength, 2),
                              !.pages = <<PointerPage(ptr, sig, order)>> \o @,
                              !.meta.Compression = compression])

InitPointers ==
    /\ \E ptr \in PointerSpecs, sig \in Signatures, o \in {LittleEndian, BigEndian},
          c \in {"", rle_compression} :
            input = [pointer |-> ptr, signature |-> sig, order |-> o, Compression |-> c,
                     open |-> "none"]
    /\ sas = NilReader /\ ret = NoRet /\ held = <<>> /\ calls = 0
    /\ stata = Unused /\ csv = Unused /\ cmp = Unused

\* NewSAS7BDATReader is called on the file.
Construct ==
    /\ input.open = "none"
    /\ \E r \in {NewSAS7BDATReader(PointerFile(input.pointer, input.signature, input.order,
                                                input.Compression), DefaultOpts)} :
          /\ sas' = r.sas
          /\ input' = [input EXCEPT !.open = r.err]
    /\ UNCHANGED <<ret, held, calls, stata, csv, cmp>>

NextPointers == Construct

SpecPointers == InitPointers /\ [][NextPointers]_vars

\* Files whose first page with rows is any of the pages at which the
\* parsing of the metadata stops: the valid layouts, and layouts that begin
\* with an amd page carrying data subheaders.
StartLayouts ==
    Layouts \cup {<<[kind |-> k, n |-> 0], [kind |-> "amdrows", n |-> n]>> \o t :
                    k \in {"meta", "amd"}, n \in 1..MaxRowsOnPage,
                    t \in {<<>>, <<[kind |-> "data", n |-> 1]>>}}

InitStart == InitWith(StartLayouts, {<<1, 2, 3>>}, {LittleEndian, BigEndian}, {"BEST"}, {DefaultOpts})

SpecStart == InitStart /\ [][Next]_vars

\* The loop of a caller that reads a file to its end (doConversion): it
\* calls Read(n) with the same n > 0 until Read returns a nil batch or an
\* error (io.EOF included), and keeps nothing of the batches.  The files are
\* the valid layouts, with the declared row count or one row more than the
\* pages hold.  The counters the model keeps of allocations and of calls on
\* the source are no part of the reader and are reset after each call.
Forget(s) == [s EXCEPT !.nalloc = 0, !.file.ops = 0]

LoopSizes == {1, MaxRows + 2}

InitLoop ==
    \E l \in Layouts, short \in {0, 1}, n \in LoopSizes :
      \E r \in {NewSAS7BDATReader([FileOf(l, <<1, 2, 3>>, LittleEndian, <<"BEST", "", "">>)
                                      EXCEPT !.meta.rowCount = @ + short], DefaultOpts)} :
            /\ r.err = "nil"
            /\ sas = Forget(r.sas)
            /\ input = [layout |-> l, content |-> <<1, 2, 3>>, opts |-> DefaultOpts,
                         whole |-> <<>>, open |-> r.err, short |-> short, n |-> n]
            /\ ret = NoRet /\ held = <<>> /\ calls = 0
            /\ stata = Unused /\ csv = Unused /\ cmp = Unused

\* One iteration of the loop.
LoopRead ==
    /\ ret.err \in {"none", "nil"}
    /\ ret.err = "nil" => ~ret.nil
    /\ \E r \in {Read(sas, input.n)} :
        /\ sas' = Forget(r.sas)
        /\ ret' = [n |-> input.n, nil |-> r.nil, rslt |-> r.rslt, err |-> r.err,
                   before |-> sas.currentRowInFileIndex, ops |-> r.sas.file.ops,
                   page |-> sas.file.pos, ptype |-> sas.currentPageType]
    /\ UNCHANGED <<input, held, calls, stata, csv, cmp>>

NextLoop == LoopRead

\* The loop is sequential code: its next iteration is always taken.
SpecLoop == InitLoop /\ [][NextLoop]_vars /\ WF_vars(LoopRead)

\* A sixth specification: files whose last page is cut short, so that the
\* source delivers fewer bytes than a page for it.
PageCuts == {1, 24, PageLength - 1}

CutLast(f, cut) == [f EXCEPT !.pages[Len(f.pages)] = SubSeq(@, 1, cut)]

InitShort ==
    \E l \in Layouts, o \in {LittleEndian, BigEndian}, cut \in PageCuts :
      \E r \in {NewSAS7BDATReader(CutLast(FileOf(l, <<1, 2, 3>>, o, <<"BEST", "", "">>), cut),
                                   DefaultOpts)} :
            /\ sas = r.sas
            /\ input = [layout |-> l, content |-> <<1, 2, 3>>, opts |-> DefaultOpts,
                         whole |-> <<>>, open |-> r.err, cut |-> cut]
            /\ ret = NoRet
            /\ held = <<>>
            /\ calls = 0
            /\ stata = Unused /\ csv = Unused /\ cmp = Unused

SpecShort == InitShort /\ [][Next]_vars

\* ---------------------------------------------------------------- StataReader
\* StataReader over well-formed dta files.  A file is its header fields (the
\* form of the header, the release, the byte order, K and N), the variable
\* types as the file codes them, and the bytes of its data section; names,
\* formats and labels are present and empty, and there are no strls and no
\* value labels.  All variables are of the type int8.
StataFloat64Type == 65526
StataFloat32Type == 65527
StataInt32Type   == 65528
StataInt16Type   == 65529
StataInt8Type    == 65530
StataStrlType    == 32768

supportedDtaVersions == {114, 115, 117, 118}

\* The releases of the modelled files: 113 to 116 have the old header, 117
\* to 119 the new one.
DtaVersions == 113..119

MaxVars == 2   \* variables of a dta file

\* The byte of variable j in row i (both from 1): 0, 1, 101 and -1.
StataByte(i, j) == <<0, 1, 101, 255>>[((i + j) % 4) + 1]

StataFile(version, order, nvar, nobs) ==
    [form |-> IF version >= 117 THEN "new" ELSE "old",
     release |-> version, byteorder |-> order, K |-> nvar, N |-> nobs,
     vartypes |-> [j \in 1..nvar |-> IF version >= 117 THEN StataInt8Type ELSE 251],
     data |-> Flatten([i \in 1..nobs |-> [j \in 1..nvar |-> StataByte(i, j)]])]

supportedVersion(v) == v \in supportedDtaVersions

\* readOldHeader and readNewHeader: both take the release from the file
\* and refuse a release that is not supported.
readHeader(f) ==
    IF ~supportedVersion(f.release) THEN [rdr |-> NilReader, err |-> "error"]
    ELSE [rdr |-> [FormatVersion |-> f.release, ByteOrder |-> f.byteorder,
                   Nvar |-> f.K, rowCount |-> f.N, varTypes |-> <<>>,
                   rowsRead |-> 0, data |-> f.data, pos |-> 0 - 1],
          err |-> "nil"]

readVartypes(rdr, f) ==
    IF rdr.FormatVersion \in {118, 117, 115, 114}
    THEN [rdr |-> [rdr EXCEPT !.varTypes = f.vartypes], err |-> "nil"]
    ELSE [rdr |-> rdr, err |-> "error"]

translateVartype(t) ==
    CASE t <= 244 -> t
      [] t = 251 -> StataInt8Type
      [] t = 252 -> StataInt16Type
      [] t = 253 -> StataInt32Type
      [] t = 254 -> StataFloat32Type
      [] t = 255 -> StataFloat64Type
      [] OTHER -> 0 - 1

translateVartypes(rdr) ==
    IF \E k \in 1..rdr.Nvar : translateVartype(rdr.varTypes[k]) < 0
    THEN [rdr |-> rdr, err |-> "error"]
    ELSE [rdr |-> [rdr EXCEPT !.varTypes = [k \in 1..rdr.Nvar |-> translateVartype(@[k])]],
          err |-> "nil"]

\* The error of the dispatch on the release in readVarnames, readFormats,
\* readValueLabelNames and readVariableLabels.
readVarnames(rdr) == IF rdr.FormatVersion \in {118, 117, 115, 114} THEN "nil" ELSE "error"

readFormats(rdr) == IF rdr.FormatVersion \in {118, 117, 115, 114} THEN "nil" ELSE "error"

readValueLabelNames(rdr) ==
    IF rdr.FormatVersion \in {118, 117, 116, 115} THEN "nil" ELSE "error"

readVariableLabels(rdr) ==
    IF rdr.FormatVersion \in {118, 117, 115, 114} THEN "nil" ELSE "error"

\* init after the header.  An old file is read front to back, so the
\* reader is left at the first byte of the data; for a new file the last
\* sections read are the strls and the value labels, beyond the data.
stataInit(h, f) ==
    With(readVartypes(h, f), LAMBDA v :
        IF v.err # "nil" THEN [rdr |-> NilReader, err |-> v.err]
        ELSE With(IF v.rdr.FormatVersion < 117 THEN translateVartypes(v.rdr) ELSE v, LAMBDA t :
            IF t.err # "nil" THEN [rdr |-> NilReader, err |-> t.err]
            ELSE IF readVarnames(t.rdr) # "nil" THEN [rdr |-> NilReader, err |-> "error"]
            ELSE IF readFormats(t.rdr) # "nil" THEN [rdr |-> NilReader, err |-> "error"]
            ELSE IF readValueLabelNames(t.rdr) # "nil" THEN [rdr |-> NilReader, err |-> "error"]
            ELSE IF readVariableLabels(t.rdr) # "nil" THEN [rdr |-> NilReader, err |-> "error"]
            ELSE [rdr |-> [t.rdr EXCEPT !.pos = IF t.rdr.FormatVersion < 117 THEN 0 ELSE 0 - 1],
                  err |-> "nil"]))

NewStataReader(f) ==
    With(readHeader(f), LAMBDA h : IF h.err # "nil" THEN h ELSE stataInit(h.rdr, f))

\* binary.Read of an int8.
Int8(b) == IF b < 128 THEN b ELSE b - 256

\* readRow for a row of int8 variables at the position of the reader.
readRow(rdr) ==
    [j \in 1..rdr.Nvar |->
        [x |-> Int8(rdr.data[rdr.pos + j]),
         missing |-> Int8(rdr.data[rdr.pos + j]) < 0 - 127 \/ Int8(rdr.data[rdr.pos + j]) > 100]]

\* The loop of Read over the nval rows, from row i (from 0).
RECURSIVE stataRows(_, _, _, _)
stataRows(rdr, i, nval, rows) ==
    IF i >= nval \/ rdr.rowsRead + 1 > rdr.rowCount
    THEN [rdr |-> IF i >= nval THEN rdr ELSE [rdr EXCEPT !.rowsRead = @ + 1],
          rows |-> rows, err |-> "nil"]
    ELSE IF rdr.pos < 0
    THEN [rdr |-> rdr, rows |-> rows, err |-> "unmodelled"]
    ELSE IF rdr.pos + rdr.Nvar > Len(rdr.data)
    THEN [rdr |-> rdr, rows |-> rows, err |-> "panic"]
    ELSE stataRows([rdr EXCEPT !.rowsRead = @ + 1, !.pos = @ + rdr.Nvar], i + 1, nval,
                   Append(rows, readRow(rdr)))

\* The number of values Read(rows) reads; -1 stands for the return of
\* (nil, nil).
stataNval_wholeFile(rdr, rows) ==
    IF rows >= 0 /\ rows < rdr.rowCount THEN rows
    ELSE IF rdr.rowCount <= 0 THEN 0 - 1 ELSE rdr.rowCount

stataNval(rdr, rows) ==
    IF rows >= 0 /\ rows < rdr.rowCount - rdr.rowsRead THEN rows
    ELSE IF rdr.rowCount - rdr.rowsRead <= 0 THEN 0 - 1
    ELSE rdr.rowCount - rdr.rowsRead

\* The seek to the data section before the first row of a new file.
stataSeek(rdr) ==
    IF rdr.FormatVersion >= 117 /\ rdr.rowsRead = 0 THEN [rdr EXCEPT !.pos = 0] ELSE rdr

\* The Series of the batch: column j of the rows read, nval long.
stataSeries(rdr, rows, nval) ==
    [j \in 1..rdr.Nvar |->
        [length |-> nval,
         data |-> [i \in 1..nval |-> IF i <= Len(rows) THEN rows[i][j].x ELSE 0],
         missing |-> [i \in 1..nval |-> IF i <= Len(rows) THEN rows[i][j].missing ELSE FALSE]]]

StataRead(rdr, rows) ==
    IF stataNval(rdr, rows) < 0 THEN [rdr |-> rdr, nil |-> TRUE, rslt |-> <<>>, err |-> "nil"]
    ELSE With(stataRows(stataSeek(rdr), 0, stataNval(rdr, rows), <<>>), LAMBDA l :
            IF l.err # "nil" THEN [rdr |-> l.rdr, nil |-> TRUE, rslt |-> <<>>, err |-> l.err]
            ELSE [rdr |-> l.rdr, nil |-> FALSE,
                  rslt |-> stataSeries(l.rdr, l.rows, stataNval(rdr, rows)), err |-> "nil"])

InitStata ==
    \E v \in DtaVersions, o \in {LittleEndian, BigEndian}, k \in 1..MaxVars, n \in 0..MaxRows :
        \E r \in {NewStataReader(StataFile(v, o, k, n))} :
            /\ input = [file |-> StataFile(v, o, k, n), open |-> r.err]
            /\ stata = r.rdr
            /\ ret = [n |-> 0, nil |-> TRUE, rslt |-> <<>>, err |-> "none", before |-> 0]
            /\ held = <<>>
            /\ calls = 0
            /\ sas = Unused /\ csv = Unused /\ cmp = Unused

\* rdr.Read(n) is called by the user.
StataDoRead(n) ==
    /\ calls < MaxCalls
    /\ input.open = "nil"
    /\ ret.err \in {"none", "nil"}
    /\ \E r \in {StataRead(stata, n)} :
        /\ stata' = r.rdr
        /\ ret' = [n |-> n, nil |-> r.nil, rslt |-> r.rslt, err |-> r.err,
                   before |-> stata.rowsRead]
        /\ held' = IF r.nil THEN held ELSE Append(held, r.rslt)
        /\ calls' = calls + 1
        /\ UNCHANGED <<input, sas, csv, cmp>>

StataReadSome == \E n \in 1..MaxRows : StataDoRead(n)

StataReadZero == StataDoRead(0)

StataReadRest == StataDoRead(0 - 1)

NextStata == StataReadSome \/ StataReadZero \/ StataReadRest

SpecStata == InitStata /\ [][NextStata]_vars

\* ---------------------------------------------------------------- CSVReader
\* CSVReader over a source of records (csv.Reader with FieldsPerRecord = -1
\* gives the records of the file one by one).  A field is a sequence of
\* bytes; a float64 is modelled by an integer.  TypeHintsName, TypeHintsPos,
\* ColumnNames and DataTypes are left unset by the caller.
CacheLines == 100

\* The fields "1", "2" and "x".
CsvFields == {<<49>>, <<50>>, <<120>>}

CsvRecords == {<<a, b>> : a \in CsvFields, b \in {<<49>>, <<120>>}}

CsvHeader == <<<<97>>, <<98>>>>

\* strconv.ParseFloat on a field: a run of digits is a number, anything
\* else is an error with the value 0.
RECURSIVE DigitsValue(_)
DigitsValue(f) ==
    IF f = <<>> THEN 0 ELSE 10 * DigitsValue(SubSeq(f, 1, Len(f) - 1)) + (f[Len(f)] - 48)

ParseFloat(f) ==
    IF f # <<>> /\ \A i \in 1..Len(f) : f[i] \in 48..57
    THEN [x |-> DigitsValue(f), err |-> FALSE]
    ELSE [x |-> 0, err |-> TRUE]

\* fmt.Sprintf("Column %d", k) for k < 10.
DefaultName(k) == <<67, 111, 108, 117, 109, 110, 32, 48 + k>>

NewCSVReader(r, hasHeader) ==
    [HasHeader |-> hasHeader, SkipRows |-> 0, ColumnNames |-> <<>>, DataTypes |-> <<>>,
     initRun |-> FALSE, lines |-> <<>>, csvreader |-> r, numRows |-> 0]

\* countFloats over the cached lines, for column j (from 1) of m columns.
countFloats(lines, j) ==
    LET obs == {i \in 1..Len(lines) : j <= Len(lines[i]) /\ lines[i][j] # <<>>}
    IN  [numObs |-> Cardinality(obs),
         numFloats |-> Cardinality({i \in obs : ~ParseFloat(lines[i][j]).err})]

LongestLine(lines) ==
    IF Len(lines) = 0 THEN 0
    ELSE CHOOSE m \in {Len(lines[i]) : i \in 1..Len(lines)} :
            \A i \in 1..Len(lines) : Len(lines[i]) <= m

\* sniffTypes: a column is float64 when every non-blank cached field of it
\* parses as a float.  numFloats has one entry per column of the longest
\* cached line, and indexing it beyond that panics.
sniffTypes(rdr) ==
    IF Len(rdr.ColumnNames) > LongestLine(rdr.lines) THEN [rdr |-> rdr, err |-> "panic"]
    ELSE [rdr |-> [rdr EXCEPT !.DataTypes =
                     [j \in 1..Len(rdr.ColumnNames) |->
                         IF countFloats(rdr.lines, j).numFloats = countFloats(rdr.lines, j).numObs
                            /\ countFloats(rdr.lines, j).numObs > 0
                         THEN "float64" ELSE "string"]],
          err |-> "nil"]

getColumnNames(rdr) ==
    IF rdr.HasHeader
    THEN [rdr EXCEPT !.ColumnNames = rdr.lines[1], !.lines = Tail(rdr.lines)]
    ELSE [rdr EXCEPT !.ColumnNames = [k \in 1..Len(rdr.lines[1]) |-> DefaultName(k)]]

\* init: caches up to 100 records after the skipped ones, then names the
\* columns and infers their types.
csvInit(rdr) ==
    LET k     == min(CacheLines + rdr.SkipRows, Len(rdr.csvreader))
        lines == SubSeq(rdr.csvreader, min(rdr.SkipRows, k) + 1, k)
        r1    == [rdr EXCEPT !.lines = lines,
                             !.csvreader = SubSeq(rdr.csvreader, k + 1, Len(rdr.csvreader))]
    IN  IF Len(lines) = 0 THEN [rdr |-> r1, err |-> "error"]
        ELSE With(sniffTypes(getColumnNames(r1)), LAMBDA t :
                 IF t.err # "nil" THEN t
                 ELSE [rdr |-> [t.rdr EXCEPT !.initRun = TRUE], err |-> "nil"])

\* The values one record adds to column j (from 1) of the type t.
csvCell(t, line, j) ==
    IF j > Len(line) THEN [x |-> IF t = "float64" THEN 0 ELSE <<>>, miss |-> TRUE]
    ELSE IF t = "float64"
    THEN [x |-> ParseFloat(line[j]).x, miss |-> ParseFloat(line[j]).err]
    ELSE [x |-> line[j], miss |-> FALSE]

csvAppend(rdr, cols, line) ==
    [j \in 1..Len(cols) |->
        [data |-> Append(cols[j].data, csvCell(rdr.DataTypes[j], line, j).x),
         missing |-> Append(cols[j].missing, csvCell(rdr.DataTypes[j], line, j).miss)]]

\* The loop of Read.  numRows counts the rows of every Read call on the
\* reader; a record wider than the known columns, met beyond the cache,
\* is outside this model.
RECURSIVE csvLoop(_, _, _)
csvLoop(rdr, lines, cols) ==
    IF lines > 0 /\ rdr.numRows >= lines THEN [rdr |-> rdr, cols |-> cols, err |-> "nil"]
    ELSE IF Len(rdr.lines) > 0
    THEN csvLoop([rdr EXCEPT !.lines = Tail(@), !.numRows = @ + 1], lines,
                 csvAppend(rdr, cols, rdr.lines[1]))
    ELSE IF Len(rdr.csvreader) = 0 THEN [rdr |-> rdr, cols |-> cols, err |-> "nil"]
    ELSE IF Len(rdr.csvreader[1]) > Len(rdr.ColumnNames)
    THEN [rdr |-> rdr, cols |-> cols, err |-> "unmodelled"]
    ELSE csvLoop([rdr EXCEPT !.csvreader = Tail(@), !.numRows = @ + 1], lines,
                 csvAppend(rdr, cols, rdr.csvreader[1]))

csvSeries(rdr, cols) ==
    [j \in 1..Len(cols) |->
        [Name |-> rdr.ColumnNames[j], type |-> rdr.DataTypes[j],
         data |-> cols[j].data, missing |-> cols[j].missing]]

csvReadLoop(rdr, lines) ==
    With(csvLoop(rdr, lines, [j \in 1..Len(rdr.ColumnNames) |-> [data |-> <<>>, missing |-> <<>>]]),
         LAMBDA l :
            IF l.err # "nil" THEN [rdr |-> l.rdr, rslt |-> <<>>, err |-> l.err]
            ELSE [rdr |-> l.rdr, rslt |-> csvSeries(l.rdr, l.cols), err |-> "nil"])

CSVRead(rdr, lines) ==
    IF rdr.initRun THEN csvReadLoop(rdr, lines)
    ELSE With(csvInit(rdr), LAMBDA i :
             IF i.err # "nil" THEN [rdr |-> i.rdr, rslt |-> <<>>, err |-> i.err]
             ELSE csvReadLoop(i.rdr, lines))

\* The sources: up to MaxRows records, after a header record or not.
CsvFiles ==
    UNION {[1..n -> CsvRecords] : n \in 0..MaxRows}

InitCSV ==
    \E f \in CsvFiles, h \in BOOLEAN :
        /\ input = [file |-> IF h THEN <<CsvHeader>> \o f ELSE f, HasHeader |-> h]
        /\ csv = NewCSVReader(input.file, h)
        /\ ret = [n |-> 0, rslt |-> <<>>, err |-> "none", before |-> 0]
        /\ held = <<>>
        /\ calls = 0
        /\ sas = Unused /\ stata = Unused /\ cmp = Unused

\* The rows of a batch.
CsvRows(rslt) == IF Len(rslt) = 0 THEN 0 ELSE Len(rslt[1].data)

RECURSIVE CsvSumRows(_)
CsvSumRows(batches) ==
    IF batches = <<>> THEN 0 ELSE CsvRows(batches[1]) + CsvSumRows(Tail(batches))

\* rdr.Read(n) is called by the user.
CsvDoRead(n) ==
    /\ calls < MaxCalls
    /\ ret.err \in {"none", "nil"}
    /\ \E r \in {CSVRead(csv, n)} :
        /\ csv' = r.rdr
        /\ ret' = [n |-> n, rslt |-> r.rslt, err |-> r.err, before |-> CsvSumRows(held)]
        /\ held' = IF r.err = "nil" THEN Append(held, r.rslt) ELSE held
        /\ calls' = calls + 1
        /\ UNCHANGED <<input, sas, stata, cmp>>

CsvReadSome == \E n \in 1..MaxRows : CsvDoRead(n)

CsvReadRest == CsvDoRead(0 - 1)

NextCSV == CsvReadSome \/ CsvReadRest

SpecCSV == InitCSV /\ [][NextCSV]_vars

\* ---------------------------------------------------------------- Series
\* Series.AllClose.  A Series is its length, the type of its data slice, the
\* data, and the missing mask (hasMissing is false for a nil mask).  Floats
\* are modelled by integers, the tolerance by a natural number, and a
\* string by the byte of its one character.
MaxSeriesLen == 2   \* elements of a compared Series

\* The types AllClose asserts on both sides with the two-value form, and
\* those it asserts on the other side with the one-value form.
CheckedTypes   == {"float64", "float32", "string", "time.Time"}
UncheckedTypes == {"int64", "int32", "int16", "int8", "uint64"}

SeriesTypes == {"float64", "string", "int64", "int8"}

SeriesVals(t) == IF t = "string" THEN {97, 98} ELSE 0..1

Tolerances == {0, 1}

SeriesOfLen(t, n) ==
    {[length |-> n, type |-> t, data |-> d, hasMissing |-> FALSE, missing |-> <<>>] :
        d \in [1..n -> SeriesVals(t)]}
    \cup {[length |-> n, type |-> t, data |-> d, hasMissing |-> TRUE, missing |-> m] :
            d \in [1..n -> SeriesVals(t)], m \in [1..n -> BOOLEAN]}

AllSeries == UNION {SeriesOfLen(t, n) : t \in SeriesTypes, n \in 0..MaxSeriesLen}

Abs(x) == IF x < 0 THEN 0 - x ELSE x

MinOf(S) == CHOOSE x \in S : \A y \in S : x <= y

\* The closure cmiss at index j (from 0): 0 when the masks disagree, 1 when
\* both values are present, 2 when both are missing.
cmiss(ser, other, j) ==
    LET f1 == ~ser.hasMissing \/ ~ser.missing[j + 1]
        f2 == ~other.hasMissing \/ ~other.missing[j + 1]
    IN  IF f1 # f2 THEN 0 ELSE IF f1 THEN 1 ELSE 2

\* The comparison of two values of the type t.
ValuesDiffer(t, u, v, tol) ==
    IF t \in {"float64", "float32"} THEN Abs(u - v) > tol ELSE u # v

AllCloseResult(ok, j) == [ok |-> ok, j |-> j, panic |-> FALSE]

AllClosePanic == [ok |-> FALSE, j |-> 0, panic |-> TRUE]

\* The loop of one case of the type switch: it stops at the first index
\* where the masks disagree or where both values are present and either
\* differ or, for the unchecked types, the assertion on other.data fails.
allCloseLoop(ser, other, tol) ==
    LET stops == {j \in 0..(ser.length - 1) :
                    \/ cmiss(ser, other, j) = 0
                    \/ /\ cmiss(ser, other, j) = 1
                       /\ \/ other.type # ser.type
                          \/ ValuesDiffer(ser.type, ser.data[j + 1], other.data[j + 1], tol)}
    IN  IF stops = {} THEN AllCloseResult(TRUE, 0)
        ELSE IF cmiss(ser, other, MinOf(stops)) = 0 THEN AllCloseResult(FALSE, MinOf(stops))
        ELSE IF other.type # ser.type THEN AllClosePanic
        ELSE AllCloseResult(FALSE, MinOf(stops))

AllClose(ser, other, tol) ==
    LET maskDiff == {j \in 0..(ser.length - 1) : ser.missing[j + 1] # other.missing[j + 1]}
    IN  IF ser.length # other.length THEN AllCloseResult(FALSE, 0 - 1)
        ELSE IF ser.hasMissing /\ other.hasMissing /\ maskDiff # {}
        THEN AllCloseResult(FALSE, MinOf(maskDiff))
        ELSE IF ser.type \in CheckedTypes /\ other.type # ser.type
        THEN AllCloseResult(FALSE, 0 - 2)
        ELSE allCloseLoop(ser, other, tol)

NoResult == [ok |-> FALSE, j |-> 0 - 3, panic |-> FALSE]

InitClose ==
    /\ cmp \in [ser : AllSeries, other : AllSeries, tol : Tolerances, done : {FALSE},
                 res : {NoResult}]
    /\ sas = Unused /\ input = Unused /\ ret = Unused /\ held = Unused /\ calls = Unused
    /\ stata = Unused /\ csv = Unused

\* ser.AllClose(other, tol) is called.
Compare ==
    /\ ~cmp.done
    /\ cmp' = [cmp EXCEPT !.done = TRUE, !.res = AllClose(cmp.ser, cmp.other, cmp.tol)]
    /\ UNCHANGED <<sas, input, ret, held, calls, stata, csv>>

NextClose == Compare

SpecClose == InitClose /\ [][NextClose]_vars

\* ---------------------------------------------------------- decompressors
\* The decompressors on their own.  An input is written as a sequence of
\* commands [op, low, a, b]: op and low are the nibbles of the command
\* byte, a and b the operand bytes (where the command has them).  For RDC
\* op -1 is a literal token with the byte b.
MaxCmds == 2   \* commands of a compressed input, after the literal prefix

\* n literal bytes, all different from their neighbours.
Literals(n, first) == [i \in 1..n |-> (first + i) % 256]

RleCmds ==
    [op : {0, 4, 6, 7}, low : {0, 2}, a : {1}, b : {65}]
        \cup [op : {8, 9, 10, 11, 12}, low : {0, 15}, a : {0}, b : {65}]
        \cup [op : {13, 14, 15, 1, 2, 3, 5}, low : {3}, a : {0}, b : {65}]

\* The bytes of one RLE command with its operands.
RleBytes(c) ==
    CASE c.op = 0 -> <<c.low, c.a>> \o Literals(c.a + 64, c.b)
      [] c.op = 4 -> <<64 + c.low, c.a, c.b>>
      [] c.op \in {6, 7} -> <<16 * c.op + c.low, c.a>>
      [] c.op \in 8..11 -> <<16 * c.op + c.low>> \o Literals(c.low + 1 + 16 * (c.op - 8), c.b)
      [] c.op = 12 -> <<192 + c.low, c.b>>
      [] OTHER -> <<16 * c.op + c.low>>

RdcTokens ==
    [op : {0 - 1}, low : {0}, a : {0}, b : {33}]
        \cup [op : {0}, low : {2}, a : {0}, b : {34}]
        \cup [op : {1}, low : {0}, a : {0, 1}, b : {35}]
        \cup [op : {2}, low : {0, 1}, a : {0, 1}, b : {0}]
        \cup [op : {3, 4, 15}, low : {0}, a : {0}, b : {0}]

\* The bytes of one RDC token without its control bit.
RdcBytes(t) ==
    CASE t.op < 0 -> <<t.b>>
      [] t.op = 0 -> <<t.low, t.b>>
      [] t.op = 1 -> <<16 + t.low, t.a, t.b>>
      [] t.op = 2 -> <<32 + t.low, t.a, t.b>>
      [] OTHER -> <<16 * t.op + t.low, t.a>>

\* The 16-bit control word of a group of at most 16 tokens, first token in
\* the most significant bit.
RECURSIVE RdcControl(_, _)
RdcControl(toks, weight) ==
    IF toks = <<>> THEN 0
    ELSE (IF toks[1].op < 0 THEN 0 ELSE weight) + RdcControl(Tail(toks), weight \div 2)

\* The bytes of a token sequence: per group of 16 tokens the control word,
\* big-endian, and the bytes of the tokens.
RECURSIVE RdcInput(_)
RdcInput(toks) ==
    IF toks = <<>> THEN <<>>
    ELSE LET g == SubSeq(toks, 1, min(16, Len(toks)))
         IN  BigBytes(RdcControl(g, 32768), 2)
               \o Flatten([i \in 1..Len(g) |-> RdcBytes(g[i])])
               \o RdcInput(SubSeq(toks, Len(g) + 1, Len(toks)))

\* The literal tokens that precede the commands of an RDC input.
RdcPrefixes == {0, 15, 16}

RdcPrefix(k) == [i \in 1..k |-> [op |-> 0 - 1, low |-> 0, a |-> 0, b |-> 64 + i]]

CodecInputs ==
    {[codec |-> "rle", toks |-> t, inbuff |-> Flatten([i \in 1..Len(t) |-> RleBytes(t[i])])] :
        t \in UNION {[1..n -> RleCmds] : n \in 1..MaxCmds}}
    \cup {[codec |-> "rdc", toks |-> RdcPrefix(k) \o t, inbuff |-> RdcInput(RdcPrefix(k) \o t)] :
            k \in RdcPrefixes, t \in UNION {[1..n -> RdcTokens] : n \in 1..MaxCmds}}

\* The declared lengths: the row length of the modelled files, and a
\* length no modelled output exceeds.
CodecLengths == {RowLength, 1024}

NoOutput == [out |-> <<>>, err |-> "none"]

InitCodec ==
    /\ \E i \in CodecInputs, L \in CodecLengths :
          cmp = [codec |-> i.codec, toks |-> i.toks, inbuff |-> i.inbuff,
                 result_length |-> L, done |-> FALSE, res |-> NoOutput]
    /\ sas = Unused /\ input = Unused /\ ret = Unused /\ held = Unused /\ calls = Unused
    /\ stata = Unused /\ csv = Unused

\* rle_decompress(result_length, inbuff) is called.
DecompressRLE ==
    /\ ~cmp.done /\ cmp.codec = "rle"
    /\ cmp' = [cmp EXCEPT !.done = TRUE, !.res = rle_decompress(cmp.result_length, cmp.inbuff)]
    /\ UNCHANGED <<sas, input, ret, held, calls, stata, csv>>

\* rdc_decompress(result_length, inbuff) is called.
DecompressRDC ==
    /\ ~cmp.done /\ cmp.codec = "rdc"
    /\ cmp' = [cmp EXCEPT !.done = TRUE, !.res = rdc_decompress(cmp.result_length, cmp.inbuff)]
    /\ UNCHANGED <<sas, input, ret, held, calls, stata, csv>>

NextCodec == DecompressRLE \/ DecompressRDC

SpecCodec == InitCodec /\ [][NextCodec]_vars

\* ---------------------------------------------------------------- claims
Cols       == 1..Len(ColTypes)
StringCols == {j \in Cols : ColTypes[j] = SASStringType}
ReadArgs   == {-1, 0} \cup ReadSizes

RECURSIVE SumRows(_)
SumRows(h) == IF h = <<>> THEN 0 ELSE h[1].rslt[1].length + SumRows(Tail(h))

IsPrefix(a, b) == Len(a) <= Len(b) /\ a = SubSeq(b, 1, Len(a))

\* Column j of the batches the caller holds, one after the other.
HeldData(j)    == Flatten([i \in 1..Len(held) |-> held[i].rslt[j].data])
HeldMissing(j) == Flatten([i \in 1..Len(held) |-> held[i].rslt[j].missing])

\* What a caller sees of a Read: the error and the columns' types, data
\* and masks (not the identity of the buffers).
Outcome(r) ==
    [nil |-> r.nil, err |-> r.err,
     cols |-> [j \in 1..Len(r.rslt) |->
                 [dtype |-> r.rslt[j].dtype, data |-> r.rslt[j].data,
                  missing |-> r.rslt[j].missing]]]

\* A step that is a Read call with argument n.
IsRead(n) == calls' = calls + 1 /\ ret'.n = n

\* C1: the rows of the batches add up to the row cursor, which never
\* exceeds RowCount(); a Read that asks for rows returns at least one and
\* falls short of its request only at the end of the file; when Read
\* returns io.EOF the batches returned so far hold RowCount() rows.
C1_RowTotal ==
    /\ sas.currentRowInFileIndex <= RowCount(sas)
    /\ SumRows(held) = sas.currentRowInFileIndex
    /\ (ret.err = "EOF" => SumRows(held) = RowCount(sas))
    /\ (ret.err \notin {"none", "EOF"} => ret.err = "nil" /\ ~ret.nil)
    /\ (~ret.nil /\ ret.n # 0 => ret.rslt[1].length >= 1)
    /\ (~ret.nil /\ ret.n > 0 /\ ret.rslt[1].length < ret.n
          => sas.currentRowInFileIndex = RowCount(sas))

C1_Witness ==
    /\ ret.err = "EOF" /\ Len(held) >= 2
    /\ RowCount(sas) >= 2 /\ SumRows(held) = RowCount(sas)

\* C2 as stated: for every chunking the concatenated batches are, column
\* by column, the batch of Read(-1) on a fresh reader (a prefix of it
\* while rows remain), and Read(RowCount()) equals Read(-1).
C2_Chunking_AsStated ==
    /\ \A j \in Cols :
         /\ IsPrefix(HeldData(j), input.whole[j].data)
         /\ IsPrefix(HeldMissing(j), input.whole[j].missing)
         /\ (noRowsRemain(sas) =>
               /\ HeldData(j) = input.whole[j].data
               /\ HeldMissing(j) = input.whole[j].missing)
    /\ (calls = 0 => Outcome(Read(sas, RowCount(sas))) = Outcome(Read(sas, -1)))

\* C2 (amended): the same, for readers with FactorizeStrings false; with
\* FactorizeStrings true the ids of a batch refer to the pool of its own
\* call.  Read(RowCount()) equals Read(-1) on a fresh reader in both modes.
C2_Chunking ==
    /\ ~sas.FactorizeStrings =>
         \A j \in Cols :
           /\ IsPrefix(HeldData(j), input.whole[j].data)
           /\ IsPrefix(HeldMissing(j), input.whole[j].missing)
           /\ (noRowsRemain(sas) =>
                 /\ HeldData(j) = input.whole[j].data
                 /\ HeldMissing(j) = input.whole[j].missing)
    /\ (calls = 0 => Outcome(Read(sas, RowCount(sas))) = Outcome(Read(sas, -1)))

C2_Witness ==
    /\ ~sas.FactorizeStrings /\ Len(held) >= 2 /\ noRowsRemain(sas)
    /\ Len(input.layout) >= 2
    /\ \A j \in Cols : HeldData(j) = input.whole[j].data

\* C3: in every returned batch each column's data and missing mask have
\* the length of the number of rows decoded by that call.
C3_ColumnLengths ==
    ~ret.nil =>
        \A j \in Cols :
          /\ ret.rslt[j].length = sas.currentRowInFileIndex - ret.before
          /\ Len(ret.rslt[j].missing) = sas.currentRowInFileIndex - ret.before

\* C4: Read(n), n >= 0, returns at most n rows; Read(n), n < 0, returns
\* all rows not yet returned in one batch.
C4_BatchSize ==
    /\ (~ret.nil /\ ret.n >= 0 => \A j \in Cols : ret.rslt[j].length <= ret.n)
    /\ (ret.n < 0 /\ ret.before < RowCount(sas) =>
          /\ ~ret.nil
          /\ \A j \in Cols : ret.rslt[j].length = RowCount(sas) - ret.before
          /\ sas.currentRowInFileIndex = RowCount(sas))

C4_Witness ==
    /\ ret.n < 0 /\ ~ret.nil /\ ret.before > 0
    /\ sas.FactorizeStrings
    /\ ret.rslt[2].length = RowCount(sas) - ret.before

\* C5: once all rows are consumed every Read returns (nil, io.EOF), makes
\* no call on the file and leaves the reader as it was.
C5_StableEOF ==
    [][sas.currentRowInFileIndex >= RowCount(sas) /\ calls' = calls + 1
          => sas' = sas /\ ret'.nil /\ ret'.err = "EOF" /\ ret'.ops = 0]_vars

C5_Witness ==
    /\ ret.err = "EOF" /\ ret.n > 0 /\ calls >= 3
    /\ sas.stringPool.m # <<>>

\* C6 as stated: Read(0) returns a non-nil batch of zero-length columns,
\* makes no call on the file and leaves the cursor, the page, the page-row
\* index and the string pool unchanged.
C6_ReadZero_AsStated ==
    [][IsRead(0) =>
          /\ ~ret'.nil
          /\ \A j \in 1..Len(ret'.rslt) :
                ret'.rslt[j].length = 0 /\ ret'.rslt[j].missing = <<>>
          /\ ret'.ops = 0
          /\ sas'.currentRowInFileIndex = sas.currentRowInFileIndex
          /\ sas'.cachedPage = sas.cachedPage
          /\ sas'.currentRowOnPageIndex = sas.currentRowOnPageIndex
          /\ StringFactorMap(sas').m = StringFactorMap(sas).m]_vars

\* C6 (amended): while rows remain Read(0) returns a non-nil batch with one
\* zero-length column and mask per column, makes no call on the file,
\* leaves the cursor, the page and the page-row index unchanged, so that
\* the next Read returns what it would have returned without it, and it
\* replaces the string pool by a new empty one; once all rows are consumed
\* Read(0) returns (nil, io.EOF).
C6_ReadZero ==
    [][IsRead(0) =>
          IF noRowsRemain(sas)
          THEN ret'.nil /\ ret'.err = "EOF" /\ sas' = sas
          ELSE /\ ~ret'.nil /\ ret'.err = "nil"
               /\ Len(ret'.rslt) = sas.properties.columnCount
               /\ \A j \in 1..Len(ret'.rslt) :
                     ret'.rslt[j].length = 0 /\ ret'.rslt[j].missing = <<>>
               /\ ret'.ops = 0
               /\ sas'.file = sas.file
               /\ sas'.currentRowInFileIndex = sas.currentRowInFileIndex
               /\ sas'.cachedPage = sas.cachedPage
               /\ sas'.currentPageType = sas.currentPageType
               /\ sas'.currentPageBlockCount = sas.currentPageBlockCount
               /\ sas'.currentPageSubheadersCount = sas.currentPageSubheadersCount
               /\ sas'.currentPageDataSubheaderPointers = sas.currentPageDataSubheaderPointers
               /\ sas'.currentRowOnPageIndex = sas.currentRowOnPageIndex
               /\ StringFactorMap(sas').m = <<>>
               /\ StringFactorMap(sas').id # StringFactorMap(sas).id
               /\ \A k \in ReadArgs :
                     \A after \in {Read(sas', k)}, without \in {Read(sas, k)} :
                         /\ Outcome(after) = Outcome(without)
                         /\ after.sas.currentRowInFileIndex
                              = without.sas.currentRowInFileIndex]_vars

C6_Witness ==
    /\ ret.n = 0 /\ ~ret.nil /\ ret.before > 0
    /\ Len(held) >= 2 /\ held[1].pool.m # <<>>
    /\ StringFactorMap(sas).m = <<>>

\* C7: for the same reader state and the same Read call, the ids of a
\* string column returned with FactorizeStrings true, mapped through
\* StringFactorMap(), are the strings returned with FactorizeStrings false.
C7_FactorRoundTrip ==
    [][calls' = calls + 1 =>
          \A a \in {Read([sas EXCEPT !.FactorizeStrings = TRUE], ret'.n)},
             b \in {Read([sas EXCEPT !.FactorizeStrings = FALSE], ret'.n)} :
          LET m == StringFactorMap(a.sas).m
          IN  /\ a.nil = b.nil
              /\ ~a.nil =>
                   \A j \in StringCols :
                     /\ \A i \in 1..Len(a.rslt[j].data) : a.rslt[j].data[i] \in DOMAIN m
                     /\ [i \in 1..Len(a.rslt[j].data) |-> m[a.rslt[j].data[i]]]
                          = b.rslt[j].data]_vars

C7_Witness ==
    /\ ~ret.nil /\ sas.FactorizeStrings /\ ret.n > 0
    /\ ret.rslt[2].length > Len(ret.rslt[2].missing)

\* The strings of the rows a Read decoded, as the file holds them, row by
\* row and within a row in column order: entry p is the text of string
\* column number ((p-1) % k) + 1 of row ((p-1) \div k) + 1 of the batch.
DecodedText ==
    LET k    == Cardinality(StringCols)
        n    == sas.currentRowInFileIndex - ret.before
        rows == FileRows(input.layout, input.content)
        col(c) == CHOOSE j \in StringCols : Cardinality({q \in StringCols : q < j}) = c - 1
        cell(i, j) == Slice(rows[ret.before + i], ColOffsets[j], ColOffsets[j] + ColLengths[j])
    IN  [p \in 1..(n * k) |->
            LET i == ((p - 1) \div k) + 1
                j == col(((p - 1) % k) + 1)
                t == IF sas.TrimStrings THEN TrimRight(cell(i, j)) ELSE cell(i, j)
            IN  [i |-> i, j |-> j, t |-> t]]

\* C8: after a Read that decoded rows, the ids of the pool are 0..k-1 for
\* its k distinct strings, stringPool and stringPoolR are mutual inverses,
\* and reading the cells row by row, a string seen before has the id it
\* got then and a new string has the number of distinct strings before it.
C8_PoolBijection ==
    ~ret.nil =>
        LET m == sas.stringPool.m
            R == sas.stringPoolR
            e == DecodedText
            id(p) == sas.stringchunk[e[p].j].a[e[p].i]
        IN  /\ DOMAIN m = 0..(Cardinality(DOMAIN m) - 1)
            /\ DOMAIN R = {m[k] : k \in DOMAIN m}
            /\ \A k \in DOMAIN m : R[m[k]] = k
            /\ \A t \in DOMAIN R : m[R[t]] = t
            /\ {id(p) : p \in DOMAIN e} = DOMAIN m
            /\ \A p \in DOMAIN e :
                 /\ m[id(p)] = e[p].t
                 /\ LET first == CHOOSE q \in 1..p :
                                     /\ e[q].t = e[p].t
                                     /\ \A u \in 1..(q - 1) : e[u].t # e[p].t
                    IN  id(p) = Cardinality({e[u].t : u \in 1..(first - 1)})

C8_Witness ==
    /\ ~ret.nil /\ sas.FactorizeStrings
    /\ Cardinality(DOMAIN sas.stringPool.m) >= 2
    /\ Len(DecodedText) > Cardinality(DOMAIN sas.stringPool.m)
    /\ sas.stringPool.m[0] = DecodedText[1].t

\* C9: the map and the id columns the caller got from earlier Reads are
\* as they were handed out: whenever the reader still holds the same
\* object, its contents are the ones the caller saw.
C9_IndependentBatches ==
    \A h \in 1..Len(held) :
        /\ held[h].pool.id = sas.stringPool.id => held[h].pool.m = sas.stringPool.m
        /\ \A j \in 1..Len(held[h].rslt) :
             held[h].rslt[j].ref # 0 =>
                \A c \in 1..Len(sas.stringchunk) :
                    sas.stringchunk[c].id = held[h].rslt[j].ref
                        => sas.stringchunk[c].a = held[h].rslt[j].data

C9_Witness ==
    /\ Len(held) >= 2 /\ sas.FactorizeStrings
    /\ held[1].pool.m # held[2].pool.m
    /\ held[1].rslt[2].data # held[2].rslt[2].data
    /\ held[1].pool.id # sas.stringPool.id
    /\ held[1].rslt[2].ref # 0

\* C10: a numeric column is returned as timestamps exactly when
\* ConvertDates is true and its format is MMDDYY, DATE or DATETIME.
C10_DateColumns ==
    ~ret.nil =>
        \A j \in Cols :
            ColTypes[j] = SASNumericType =>
                ((ret.rslt[j].dtype = "time.Time")
                    <=> (sas.ConvertDates
                          /\ sas.ColumnFormats[j] \in {"MMDDYY", "DATE", "DATETIME"}))

\* The bytes of string column j in row i (1-based) of the batch the last
\* Read returned, as the file holds them.
Cell(i, j) ==
    Slice(FileRows(input.layout, input.content)[ret.before + i],
          ColOffsets[j], ColOffsets[j] + ColLengths[j])

\* C11: with a TextDecoder and TrimStrings, every string of a batch is the
\* right-trim of the decoded bytes of its cell: the decoder sees the raw
\* fixed-width bytes and the trim is applied to its result.
C11_DecodeThenTrim ==
    ~ret.nil /\ sas.TextDecoder # "nil" /\ sas.TrimStrings =>
        \A j \in StringCols :
            \A i \in 1..Len(ret.rslt[j].data) :
                ret.rslt[j].data[i] = TrimRight(DecoderBytes(sas.TextDecoder, Cell(i, j)))

\* C12: the constructor over a source that holds fewer bytes than the
\* header length its header declares returns an error and no reader.
C12_TruncatedHeader ==
    input.size < HeaderLength => input.open # "nil" /\ sas = NilReader

\* C13: a Read returns either a batch and a nil error or a nil batch and
\* an error; it never panics.
C13_ErrorsReturned ==
    ret.err # "none" =>
        /\ ret.err # "panic"
        /\ ret.nil <=> ret.err # "nil"

\* What the accessors RowCount(), ColumnNames(), ColumnTypes() and the
\* fields ColumnFormats and Compression give, and the row layout.
FileProperties(s) ==
    [rowCount |-> s.rowCount, columnNames |-> s.columnNames, columnTypes |-> s.columnTypes,
     ColumnFormats |-> s.ColumnFormats, columnDataOffsets |-> s.columnDataOffsets,
     columnDataLengths |-> s.columnDataLengths, rowLength |-> s.properties.rowLength,
     columnCount |-> s.properties.columnCount, Compression |-> s.Compression]

\* C14: no Read call changes the file-level properties or the column
\* descriptors of the reader.
C14_PropertiesFrozen ==
    [][calls' = calls + 1 => FileProperties(sas') = FileProperties(sas)]_vars

\* The type of page p of the file, as readPageHeader reads it.
PageType(p) == readIntFromBuffer(Slice(sas.file.pages[p], 16, 18), sas.ByteOrder)

RowPageTypes == {page_meta_type, page_data_type, 512, 640}

C19_FailsOnStart ==
    ret.err = "error" /\ ret.nil /\ ret.ptype \notin RowPageTypes /\ ret.page = 1

RowCrosses(s) ==
    /\ ~noRowsRemain(s)
    /\ isPageMixType(s.currentPageType)
    /\ MixStart(s.currentPageSubheadersCount)
         + (s.currentRowOnPageIndex + 1) * s.properties.rowLength > Len(s.cachedPage)

\* C20: a Read whose first row crosses the end of the cached page decodes
\* that row when the file has a further page, and fails only when it has
\* none.
C20_RowAcrossPages ==
    [][calls' = calls + 1 /\ ret'.n # 0 /\ RowCrosses(sas) =>
          IF sas.file.pos < Len(sas.file.pages)
          THEN /\ ret'.err = "nil" /\ ~ret'.nil
               /\ sas'.currentRowInFileIndex > sas.currentRowInFileIndex
          ELSE ret'.err = "error"]_vars

\* The positions (from 0) at which two Series of one type and one length
\* differ: the missing flags differ, or both values are present and differ.
DifferAt(ser, other, tol) ==
    {j \in 0..(ser.length - 1) :
        \/ cmiss(ser, other, j) = 0
        \/ cmiss(ser, other, j) = 1
             /\ ValuesDiffer(ser.type, ser.data[j + 1], other.data[j + 1], tol)}

\* C18: AllClose gives (false, -1) when the lengths differ, else (false, -2)
\* when the types differ, else (false, j) for the first position j where
\* the Series differ, else (true, 0), and never panics.
C18_AllClose ==
    cmp.done =>
        /\ ~cmp.res.panic
        /\ cmp.res =
             (IF cmp.ser.length # cmp.other.length THEN AllCloseResult(FALSE, 0 - 1)
              ELSE IF cmp.ser.type # cmp.other.type THEN AllCloseResult(FALSE, 0 - 2)
              ELSE IF DifferAt(cmp.ser, cmp.other, cmp.tol) # {}
              THEN AllCloseResult(FALSE, MinOf(DifferAt(cmp.ser, cmp.other, cmp.tol)))
              ELSE AllCloseResult(TRUE, 0))

\* The batch Read(-1) returns on a fresh reader over the source.
CsvWhole == CSVRead(NewCSVReader(input.file, input.HasHeader), 0 - 1)

\* Rows a+1..b of a batch.
CsvSlice(rslt, a, b) ==
    [j \in 1..Len(rslt) |->
        [rslt[j] EXCEPT !.data = SubSeq(@, a + 1, b), !.missing = SubSeq(@, a + 1, b)]]

\* C17: every Read(k), k > 0, returns the next min(k, remaining) rows of
\* the file, as Read(-1) on a fresh reader gives them, so that the batches
\* of successive calls concatenate to that result.
C17_CsvChunks ==
    ret.err = "nil" /\ ret.n > 0 /\ CsvWhole.err = "nil" =>
        ret.rslt = CsvSlice(CsvWhole.rslt, ret.before,
                            min(ret.before + ret.n, CsvRows(CsvWhole.rslt)))

\* C15: NewStataReader returns a reader for the releases 114, 115, 117 and
\* 118 and an error for every other release.
C15_DtaVersions ==
    input.open = "nil" <=> input.file.release \in {114, 115, 117, 118}

\* The rows left when the last Read was called, and the rows it had to give.
StataLeft == stata.rowCount - ret.before

StataDue == IF ret.n < 0 THEN StataLeft ELSE min(ret.n, StataLeft)

\* C16: Read(rows) returns min(rows, RowCount - rowsRead) rows for rows >= 0
\* and all remaining rows for rows < 0, advances rowsRead by that number,
\* returns the records that follow those of the earlier batches, and returns
\* (nil, nil) once no rows remain.
C16_StataChunks ==
    ret.err # "none" =>
        /\ ret.err = "nil"
        /\ IF StataLeft <= 0 THEN ret.nil /\ stata.rowsRead = ret.before
           ELSE /\ ~ret.nil
                /\ stata.rowsRead = ret.before + StataDue
                /\ stata.rowsRead <= stata.rowCount
                /\ \A j \in 1..stata.Nvar :
                      /\ ret.rslt[j].length = StataDue
                      /\ \A i \in 1..StataDue :
                            ret.rslt[j].data[i] = Int8(StataByte(ret.before + i, j))

\* A second batch has completed a new-format file of at least two rows
\* with two variables.
C16_Witness ==
    /\ ret.err = "nil" /\ ~ret.nil
    /\ ret.before > 0 /\ ret.n > 0
    /\ stata.rowsRead = stata.rowCount
    /\ stata.FormatVersion >= 117 /\ stata.Nvar = 2

\* C21: a page of which the source delivers fewer bytes than pageLength
\* makes the page read fail: a construction that reads it returns an error,
\* and so does the Read call that advances to it.
C21_ShortPageFails ==
    input.open = "nil" =>
        /\ calls = 0 => sas.file.pos < Len(sas.file.pages)
        /\ ret.err # "none" /\ ret.page < Len(sas.file.pages)
              /\ sas.file.pos = Len(sas.file.pages) => ret.err = "error"

\* A construction has read the short page and returned an error.
C21_ConstructionFails == input.open = "error" /\ Len(input.layout) = 1

\* The expansion of one RLE command as the opcode table gives it.
RleExpand(c) ==
    CASE c.op = 0 -> Literals(c.a + 64, c.b)
      [] c.op = 4 -> Fill(c.low * 16 + c.a, c.b)
      [] c.op = 6 -> Fill(c.low * 256 + c.a + 17, 32)
      [] c.op = 7 -> Fill(c.low * 256 + c.a + 17, 0)
      [] c.op \in 8..11 -> Literals(c.low + 1 + 16 * (c.op - 8), c.b)
      [] c.op = 12 -> Fill(c.low + 3, c.b)
      [] c.op = 13 -> Fill(c.low + 2, 64)
      [] c.op = 14 -> Fill(c.low + 2, 32)
      [] c.op = 15 -> Fill(c.low + 2, 0)
      [] OTHER -> <<>>

RleValid(toks) == \A i \in 1..Len(toks) : toks[i].op \notin {1, 2, 3, 5}

\* C22: on a sequence of complete commands rle_decompress returns the
\* concatenation of the expansions of the commands, consuming exactly their
\* operands, and returns an error when a command byte has the high nibble
\* 1, 2, 3 or 5.
C22_RleTable ==
    cmp.done /\ cmp.codec = "rle" =>
        IF RleValid(cmp.toks)
        THEN /\ cmp.res.err = "nil"
             /\ cmp.res.out = Flatten([i \in 1..Len(cmp.toks) |-> RleExpand(cmp.toks[i])])
        ELSE cmp.res.err = "error"

\* Two commands have been expanded, the first a literal copy with a length
\* byte and the second a run.
C22_Witness ==
    /\ cmp.done /\ cmp.codec = "rle" /\ cmp.res.err = "nil"
    /\ Len(cmp.toks) = 2 /\ cmp.toks[1].op = 0 /\ cmp.toks[2].op = 4 /\ cmp.toks[2].low = 2
    /\ Len(cmp.res.out) = 65 + 33

\* C23: a decompressor that returns without error returns a buffer of
\* exactly the declared length.
C23_DeclaredLength ==
    cmp.done /\ cmp.res.err = "nil" => Len(cmp.res.out) = cmp.result_length

\* cnt bytes copied one at a time from ofs bytes before the end of out.
RECURSIVE CopyBack(_, _, _)
CopyBack(out, ofs, cnt) ==
    IF cnt = 0 THEN out ELSE CopyBack(Append(out, out[Len(out) - ofs + 1]), ofs, cnt - 1)

RdcDistance(t) == t.low + 3 + 16 * t.a

RdcCount(t) == IF t.op = 2 THEN t.b + 16 ELSE t.op

\* The output of a token sequence as the token table gives it.
RECURSIVE RdcExpand(_, _)
RdcExpand(out, toks) ==
    IF toks = <<>> THEN out
    ELSE LET t == toks[1]
         IN  RdcExpand(CASE t.op < 0 -> Append(out, t.b)
                         [] t.op = 0 -> out \o Fill(t.low + 3, t.b)
                         [] t.op = 1 -> out \o Fill(t.low + 16 * t.a + 19, t.b)
                         [] OTHER -> CopyBack(out, RdcDistance(t), RdcCount(t)),
                       Tail(toks))

\* Every back-reference of toks points into the output produced before it.
RECURSIVE RdcValid(_, _)
RdcValid(out, toks) ==
    IF toks = <<>> THEN TRUE
    ELSE /\ toks[1].op >= 2 => RdcDistance(toks[1]) <= Len(out)
         /\ RdcValid(RdcExpand(out, <<toks[1]>>), Tail(toks))

\* Some back-reference of toks copies more bytes than its distance.
RdcOverlaps(toks) ==
    \E i \in 1..Len(toks) : toks[i].op >= 2 /\ RdcCount(toks[i]) > RdcDistance(toks[i])

\* C24: rdc_decompress returns the output the token table gives: control
\* words of 16 bits read before every group of 16 tokens, literals, runs
\* and back-references with the stated counts and distances.
C24_RdcTokens ==
    cmp.done /\ cmp.codec = "rdc" /\ RdcValid(<<>>, cmp.toks) =>
        cmp.res = [out |-> RdcExpand(<<>>, cmp.toks), err |-> "nil"]

\* The token table holds for the inputs none of whose back-references
\* overlaps the bytes it appends.
C24_WithoutOverlap ==
    cmp.done /\ cmp.codec = "rdc" /\ RdcValid(<<>>, cmp.toks) /\ ~RdcOverlaps(cmp.toks) =>
        cmp.res = [out |-> RdcExpand(<<>>, cmp.toks), err |-> "nil"]

\* A second control word has been read and a back-reference of 16 bytes
\* behind it has been copied.
C24_Witness ==
    /\ cmp.done /\ cmp.codec = "rdc" /\ cmp.res.err = "nil"
    /\ Len(cmp.toks) = 18 /\ cmp.toks[17].op = 0 /\ cmp.toks[18].op = 2
    /\ ~RdcOverlaps(cmp.toks)
    /\ Len(cmp.res.out) >= 16 + 3 + 16

\* C25: a back-reference that copies more bytes than its distance repeats
\* the last bytes of the output periodically; it neither fails nor emits
\* other bytes.
C25_OverlappingCopy ==
    cmp.done /\ cmp.codec = "rdc" /\ RdcValid(<<>>, cmp.toks) /\ RdcOverlaps(cmp.toks) =>
        cmp.res = [out |-> RdcExpand(<<>>, cmp.toks), err |-> "nil"]

\* The 8 bytes of a numeric value whose stored bytes are raw.
Widened(ByteOrder, raw) ==
    IF ByteOrder = LittleEndian THEN Zeros(8 - Len(raw)) \o raw ELSE raw \o Zeros(8 - Len(raw))

\* The rows the last Read asked for and the rows it decoded.
RowsAsked == IF ret.n < 0 THEN sas.rowCount - ret.before ELSE ret.n

RowsDecoded == sas.currentRowInFileIndex - ret.before

\* C26: after a Read, row r of the batch occupies the bytes [8r, 8r+8) of
\* the buffer of a numeric column: the stored bytes at the end on a
\* little-endian file and at the start on a big-endian file, zeros
\* elsewhere, also in a batch that follows earlier Read calls.
C26_NumericBuffer ==
    ret.err = "nil" =>
        \A j \in 1..sas.properties.columnCount :
            sas.columnTypes[j] = SASNumericType =>
                /\ Len(sas.bytechunk[j]) = 8 * RowsAsked
                /\ \A r \in 0..(RowsAsked - 1) :
                      Slice(sas.bytechunk[j], 8 * r, 8 * r + 8) =
                          IF r < RowsDecoded
                          THEN Widened(sas.ByteOrder,
                                       Slice(FileRows(input.layout, input.content)[ret.before + r + 1],
                                             ColOffsets[j], ColOffsets[j] + ColLengths[j]))
                          ELSE Zeros(8)

\* A batch of a big-endian file that follows an earlier batch holds a row
\* with non-zero bytes.
C26_Witness ==
    /\ ret.err = "nil" /\ sas.ByteOrder = BigEndian /\ ret.before > 0 /\ calls > 1
    /\ RowsDecoded > 0
    /\ Slice(sas.bytechunk[1], 0, 8) = <<127, 248, 127, 0, 0, 0, 0, 0>>

\* The same on a little-endian file.
C26_WitnessLittle ==
    /\ ret.err = "nil" /\ sas.ByteOrder = LittleEndian /\ ret.before > 0 /\ calls > 1
    /\ Slice(sas.bytechunk[1], 0, 8) = <<0, 0, 0, 0, 0, 127, 248, 127>>

\* The outcome of a construction over a meta page with one pointer: the
\* error, the data subheader pointers kept and the pages consumed.
Classified == [err |-> input.open,
            pointers |-> IF input.open = "nil" THEN sas.currentPageDataSubheaderPointers ELSE <<>>,
            pages |-> IF input.open = "nil" THEN sas.file.pos ELSE 0]

PassedOver == [err |-> "nil", pointers |-> <<>>, pages |-> 2]

Refused == [err |-> "error", pointers |-> <<>>, pages |-> 0]

\* C27: a pointer of length 0 or compression flag 1 is skipped without its
\* signature being read; otherwise a signature of the table selects its
\* kind, and another signature is a data subheader exactly when Compression
\* is set, the compression flag is 4 or 0 and the pointer type is 1, and an
\* error otherwise.
C27_Classification ==
    input.open # "none" =>
        LET ptr == input.pointer
        IN  IF ptr.length = 0 \/ ptr.compression = 1 THEN Classified = PassedOver
            ELSE IF ptr.offset # SignatureAt THEN Classified = Refused
            ELSE IF input.signature # <<64, 16, 0, 97>> THEN Classified = PassedOver
            ELSE IF input.Compression # "" /\ ptr.compression \in {0, 4} /\ ptr.ptype = 1
            THEN Classified = [err |-> "nil", pointers |-> <<ptr>>, pages |-> 1]
            ELSE Classified = Refused

\* A pointer with an unknown signature has been taken for a data subheader.
C27_Witness ==
    /\ input.open = "nil" /\ input.signature = <<64, 16, 0, 97>>
    /\ input.pointer.compression = 4
    /\ Len(sas.currentPageDataSubheaderPointers) = 1

\* A pointer of length 0 that points behind the page has been skipped.
C27_WitnessSkipped ==
    /\ input.open = "nil" /\ input.pointer.length = 0 /\ input.pointer.offset = PageLength
    /\ sas.file.pos = 2

\* The page at which the parsing of the metadata of a layout stops: the
\* first page of type mix or data or with a data subheader.
StopPage(layout) ==
    CHOOSE p \in 1..Len(layout) :
        /\ layout[p].kind \in {"mix", "data"} \/ layout[p].n > 0
        /\ \A q \in 1..(p - 1) : ~(layout[q].kind \in {"mix", "data"} \/ layout[q].n > 0)

\* Row r (from 0) of the last batch was decoded from the bytes row.
BatchRowHolds(r, row) ==
    /\ Slice(sas.bytechunk[1], 8 * r, 8 * r + 8) = Widened(sas.ByteOrder, Slice(row, 0, 3))
    /\ ret.rslt[2].data[r + 1] = Slice(row, 3, 5)
    /\ ret.rslt[3].data[r + 1] = Slice(row, 5, 7)

\* Row r (from 0) of the last batch is row i (from 1) of the file.
BatchRowIs(r, i) == BatchRowHolds(r, FileRows(input.layout, input.content)[i])

\* Construction leaves the reader on the stop page, at its first row.
StoppedAt(p) ==
    /\ sas.file.pos = p
    /\ sas.cachedPage = sas.file.pages[p]
    /\ sas.currentRowOnPageIndex = 0

\* Every batch holds the rows of the file that follow those of the
\* batches before it.
BatchesInOrder ==
    ret.err = "nil" /\ ~ret.nil =>
        \A r \in 0..(RowsDecoded - 1) : BatchRowIs(r, ret.before + r + 1)

\* C28: construction stops at the first page of type mix or data or with a
\* data subheader and leaves it cached at row 0; the first Read decodes the
\* first row of that page, and no row is skipped or decoded twice.
C28_StopPage ==
    /\ calls = 0 => StoppedAt(StopPage(input.layout))
    /\ calls = 1 /\ ret.n # 0 => ret.err = "nil" /\ RowsDecoded >= 1 /\ BatchRowIs(0, 1)
    /\ BatchesInOrder

\* The same, where the first Read fails with an error when the stop page
\* is an amd page.
C28_StopPageByType ==
    /\ calls = 0 => StoppedAt(StopPage(input.layout))
    /\ calls = 1 /\ ret.n # 0 =>
          IF input.layout[StopPage(input.layout)].kind = "amdrows"
          THEN ret.err = "error" /\ ret.nil /\ sas.file.pos = StopPage(input.layout)
          ELSE ret.err = "nil" /\ RowsDecoded >= 1 /\ BatchRowIs(0, 1)
    /\ BatchesInOrder

\* Construction has passed over a page and stopped at a meta page with a
\* data subheader, and the first Read has decoded its first row.
C28_Witness ==
    /\ calls = 1 /\ ret.n # 0 /\ ret.err = "nil"
    /\ Len(input.layout) = 2 /\ input.layout[2].kind = "meta" /\ input.layout[2].n > 0
    /\ ret.page = 2 /\ BatchRowIs(0, 1)

\* The page that holds row k (from 0) of a file, and the index of the row
\* on that page, when every page holds the rows its layout gives it.
PageOf(layout, k) ==
    CHOOSE p \in 1..Len(layout) : RowsBefore(layout, p) <= k /\ k < RowsBefore(layout, p) + layout[p].n

IndexOf(layout, k) == k - RowsBefore(layout, PageOf(layout, k))

\* The offset of row i of a page as the statement gives it; the mix pages
\* of the modelled files have one subheader pointer.
StatedOffset(kind, i) ==
    LET base == sas.properties.pageBitOffset + 8 + 1 * sas.properties.subheaderPointerLength
    IN  IF kind = "mix"
        THEN base + i * sas.properties.rowLength
               + (IF input.opts.NoAlignCorrection THEN 0 ELSE base % 8)
        ELSE sas.properties.pageBitOffset + 8 + i * sas.properties.rowLength

\* C29: row i of a mix page is read at pageBitOffset + 8 + subheadersCount *
\* subheaderPointerLength + i * rowLength + alignCorrection (0 when
\* NoAlignCorrection is set), row i of a data page at pageBitOffset + 8 +
\* i * rowLength, and the reader advances after the last row of the page.
C29_RowOffsets ==
    ret.err = "nil" /\ ~ret.nil =>
        /\ \A r \in 0..(RowsDecoded - 1) :
              LET k == ret.before + r
                  p == PageOf(input.layout, k)
                  at == StatedOffset(input.layout[p].kind, IndexOf(input.layout, k))
              IN  input.layout[p].kind \in {"mix", "data"} =>
                      BatchRowHolds(r, Slice(sas.file.pages[p], at, at + sas.properties.rowLength))
        /\ RowsDecoded > 0 =>
              LET k == sas.currentRowInFileIndex - 1
                  p == PageOf(input.layout, k)
                  i == IndexOf(input.layout, k)
              IN  input.layout[p].kind \in {"mix", "data"} =>
                      IF i + 1 < input.layout[p].n
                      THEN sas.file.pos = p /\ sas.currentRowOnPageIndex = i + 1
                      ELSE IF p < Len(input.layout) THEN sas.file.pos > p
                      ELSE sas.file.pos = p

\* With NoAlignCorrection set, the second row of a mix page has been read
\* and the reader has advanced to the data page behind it.
C29_Witness ==
    /\ ret.err = "nil" /\ ~ret.nil /\ input.opts.NoAlignCorrection
    /\ Len(input.layout) = 2 /\ input.layout[1] = [kind |-> "mix", n |-> 2]
    /\ input.layout[2].kind = "data"
    /\ sas.currentRowInFileIndex = 2 /\ sas.file.pos = 2
    /\ BatchRowIs(RowsDecoded - 1, 2)

\* C30: a caller that calls Read(n), n > 0, again and again gets io.EOF or
\* an error after finitely many calls, also on a file whose pages hold fewer
\* rows than it declares: no call that returns a batch leaves the reader in
\* a state in which the next call returns a batch and leaves the reader as
\* it is (every later call would do the same).
C30_ReadingEnds ==
    ret.err = "nil" =>
        \E r \in {Read(sas, input.n)} : r.err # "nil" \/ Forget(r.sas) # sas

\* The same for the files whose pages hold the rows they declare.
C30_ValidFilesEnd ==
    input.short = 0 /\ ret.err = "nil" =>
        \E r \in {Read(sas, input.n)} : r.err # "nil" \/ Forget(r.sas) # sas

\* The loop has reached io.EOF on a file that declares one row more than
\* its pages hold.
C30_Witness == input.short = 1 /\ ret.err = "EOF"
====
